---- MODULE Spec2Model ----
(***************************************************************************)
(* Verification model of cognitive-canvas: the CategorizationService      *)
(* (cache + retry loop) and the ContentManager ingestion, bulk and        *)
(* retrieval workflows over their collaborators.                          *)
(*                                                                         *)
(* Text values are sequences of one-character strings so that strip(),    *)
(* concatenation, join and containment are computed, not assumed.         *)
(* Exception messages are sequences of message fragments.                 *)
(***************************************************************************)
EXTENDS Integers, Sequences, FiniteSets, TLC

VARIABLES
    \* ---- CategorizationService -------------------------------------
    cache_enabled,   \* self.cache_enabled
    cache,           \* self._cache : key -> CategoryResults (NoEntry if absent)
    catpc,           \* "idle" or "loop": position inside categorize_content
    catcall,         \* arguments and loop state of the call in progress
    catLast,         \* outcome of the last completed categorize_content call
    catPrev,         \* outcome of some earlier completed call (history)
    thr,             \* categorize_content calls made from concurrent threads
    \* ---- ContentManager ---------------------------------------------
    pc,              \* position inside the ingestion workflow in progress
    op,              \* arguments of the current / last ingestion call
    attempt,         \* attempt number of the retry decorator
    loc,             \* local variables of the workflow
    calls,           \* collaborator invocations made by the current / last call
    res,             \* outcome of the last completed ingestion call
    db,              \* contents of the vector store collection
    bulk,            \* state of store_bulk_urls (loop index, results dictionary)
    retr,            \* outcome of the last retrieve_content_by_category call
    qry              \* outcome of the last query / search / quiz operation

catvars == <<cache_enabled, cache, catpc, catcall, catLast, catPrev, thr>>

mgrvars == <<pc, op, attempt, loc, calls, res, db, bulk, retr, qry>>

vars == <<cache_enabled, cache, catpc, catcall, catLast, catPrev, thr,
          pc, op, attempt, loc, calls, res, db, bulk, retr, qry>>

None == "<None>"
NoEntry == "<absent>"
NoCall == [status |-> "none"]

\* the threads that call one service, and a thread that is not in a call
Threads == { 1, 2 }
NoThread ==
    [pc |-> "idle", title |-> <<>>, content |-> <<>>, attempt |-> 0,
     status |-> "none", value |-> None, exc |-> None]

(***************************************************************************)
(* Generic text helpers                                                    *)
(***************************************************************************)
IsSpace(ch) == ch = " "

RECURSIVE LStrip(_)
LStrip(s) == IF s # <<>> /\ IsSpace(Head(s)) THEN LStrip(Tail(s)) ELSE s

RECURSIVE RStrip(_)
RStrip(s) ==
    IF s # <<>> /\ IsSpace(s[Len(s)]) THEN RStrip(SubSeq(s, 1, Len(s) - 1)) ELSE s

\* str.strip()
Strip(s) == RStrip(LStrip(s))

\* "needle in haystack" on sequences
Contains(hay, needle) ==
    \E i \in 0 .. (Len(hay) - Len(needle)) :
        SubSeq(hay, i + 1, i + Len(needle)) = needle

(***************************************************************************)
(* CategorizationService                                                   *)
(***************************************************************************)
DefaultMaxRetries == 3

\* (title, content) arguments; two of them concatenate to the same text
CatInputs ==
    { [title |-> <<"a">>, content |-> <<"b", "c">>],
      [title |-> <<"a", "b">>, content |-> <<"c">>],
      [title |-> <<"a">>, content |-> <<"c">>],
      [title |-> <<"a">>, content |-> <<" ">>] }
CatMaxRetries == { 0, 1, DefaultMaxRetries }
CatResults == { "r1", "r2" }

\* exception classes the completion provider can raise
ProviderErrors == { "RateLimitError", "APITimeoutError", "APIConnectionError", "KeyError" }

\* what one provider invocation can do
ProviderOutcomes ==
    [kind : {"ok"}, value : CatResults, exc : {None}]
    \cup [kind : {"raise"}, value : {None}, exc : ProviderErrors]

\* mutant: timeouts are not treated as transient
IsTransient_NoTimeout(exc) == exc \in { "RateLimitError" }

\* mutant: connection errors are treated as transient too
IsTransient_Connection(exc) ==
    exc \in { "RateLimitError", "APITimeoutError", "APIConnectionError" }

\* except (RateLimitError, APITimeoutError)
IsTransient(exc) == exc \in { "RateLimitError", "APITimeoutError" }

\* except APIError  (RateLimitError, APITimeoutError, APIConnectionError derive from it)
IsAPIError(exc) == exc \in { "RateLimitError", "APITimeoutError", "APIConnectionError" }

\* _generate_cache_key: digest of the concatenation title + content
GenerateCacheKey(title, content) == title \o content

CacheKeys == { GenerateCacheKey(i.title, i.content) : i \in CatInputs }

\* mutant: writing one key drops the others
CacheStore_Evict(c, enabled, key, value) ==
    IF enabled THEN [k \in DOMAIN c |-> IF k = key THEN value ELSE NoEntry] ELSE c

\* mutant: the cache is written with no result in it
CacheStore_NoResult(c, enabled, key, value) ==
    IF enabled THEN [c EXCEPT ![key] = None] ELSE c

\* mutant: the result is never written to the cache
CacheStore_Never(c, enabled, key, value) == c

\* if self.cache_enabled: self._cache[cache_key] = result
CacheStore(c, enabled, key, value) ==
    IF enabled THEN [c EXCEPT ![key] = value] ELSE c

CatSummary(call, status, exc, msg, value, invocations, fromCache) ==
    [status |-> status, exc |-> exc, msg |-> msg, value |-> value,
     title |-> call.title, content |-> call.content,
     max_retries |-> call.max_retries, invocations |-> invocations,
     fromCache |-> fromCache, trace |-> call.trace]

\* what is remembered of an earlier call
Compact(s) ==
    IF s.status = "none" THEN NoCall
    ELSE [status |-> s.status, value |-> s.value, title |-> s.title,
          content |-> s.content, invocations |-> s.invocations]

\* a call completes: it becomes catLast; one earlier call is remembered
CatFinish(summary) ==
    /\ catLast' = summary
    /\ catPrev' \in (IF catPrev = NoCall THEN { NoCall, Compact(catLast) }
                      ELSE { catPrev })
    /\ catpc' = "idle"
    /\ catcall' = [title |-> <<>>, content |-> <<>>, max_retries |-> 0,
                   attempt |-> 0, trace |-> <<>>]

\* categorize_content, up to the first provider invocation
CatCall(title, content, max_retries) ==
    LET call == [title |-> title, content |-> content, max_retries |-> max_retries,
                 attempt |-> 1, trace |-> <<>>]
        key == GenerateCacheKey(title, content)
    IN
    /\ catpc = "idle"
    /\ IF Strip(content) = <<>>
       THEN /\ CatFinish(CatSummary(call, "raise", "ValueError",
                         <<"Cannot categorize empty content.">>, None, 0, FALSE))
            /\ UNCHANGED <<cache, cache_enabled>>
       ELSE IF cache_enabled /\ cache[key] # NoEntry
       THEN /\ CatFinish(CatSummary(call, "return", None, <<>>, cache[key], 0, TRUE))
            /\ UNCHANGED <<cache, cache_enabled>>
       ELSE IF 1 > max_retries
       THEN \* range(1, max_retries + 1) is empty: the function falls off its end
            /\ CatFinish(CatSummary(call, "return", None, <<>>, None, 0, FALSE))
            /\ UNCHANGED <<cache, cache_enabled>>
       ELSE /\ catpc' = "loop"
            /\ catcall' = call
            /\ UNCHANGED <<cache, cache_enabled, catLast, catPrev>>

\* one iteration of the retry loop: one provider invocation and its handling
CatAttempt(outcome) ==
    LET call == [catcall EXCEPT !.trace = Append(@, outcome)]
        key == GenerateCacheKey(call.title, call.content)
        n == call.attempt
    IN
    /\ catpc = "loop"
    /\ IF outcome.kind = "ok"
       THEN /\ cache' = CacheStore(cache, cache_enabled, key, outcome.value)
            /\ CatFinish(CatSummary(call, "return", None, <<>>, outcome.value, n, FALSE))
       ELSE IF IsTransient(outcome.exc)
       THEN IF n < call.max_retries
            THEN /\ catcall' = [call EXCEPT !.attempt = n + 1]
                 /\ UNCHANGED <<cache, catpc, catLast, catPrev>>
            ELSE /\ CatFinish(CatSummary(call, "raise", "RuntimeError",
                      <<"Retry limit reached. Failed due to transient error: ", outcome.exc>>,
                      None, n, FALSE))
                 /\ UNCHANGED cache
       ELSE IF IsAPIError(outcome.exc)
       THEN /\ CatFinish(CatSummary(call, "raise", "RuntimeError",
                      <<"API Error occurred: ", outcome.exc>>, None, n, FALSE))
            /\ UNCHANGED cache
       ELSE /\ CatFinish(CatSummary(call, "raise", "RuntimeError",
                      <<"Unexpected error occurred: ", outcome.exc>>, None, n, FALSE))
            /\ UNCHANGED cache
    /\ UNCHANGED cache_enabled

CatInit ==
    /\ cache_enabled \in BOOLEAN
    /\ cache = [k \in CacheKeys |-> NoEntry]
    /\ catpc = "idle"
    /\ catcall = [title |-> <<>>, content |-> <<>>, max_retries |-> 0,
                  attempt |-> 0, trace |-> <<>>]
    /\ catLast = NoCall
    /\ catPrev = NoCall
    /\ thr = [t \in Threads |-> NoThread]

CategorizeStart ==
    /\ \E i \in CatInputs, m \in CatMaxRetries : CatCall(i.title, i.content, m)
    /\ UNCHANGED <<mgrvars, thr>>

CategorizeAttempt ==
    /\ \E o \in ProviderOutcomes : CatAttempt(o)
    /\ UNCHANGED <<mgrvars, thr>>

(***************************************************************************)
(* ContentManager: collaborators, values and exceptions                    *)
(***************************************************************************)
StopAfterAttempt == 3
MaxStore == 2
MaxUrls == 3
MaxBulkStore == 3

Missing == "<missing>"            \* a key that the dictionary does not hold
NoneText == <<None>>              \* None where a text is expected
NoneTags == <<NoneText>>          \* None where a list of tags is expected
MissingTags == << <<Missing>> >>  \* key 'tags' absent
NoId == <<"none", 0>>

\* str(uuid): the textual form of an identifier
Str(uuid) == <<"str">> \o uuid

\* dict.get(key, default)
Get(v, default) == IF v = Missing THEN default ELSE v

\* (x or "")
OrEmpty(text) == IF text = NoneText THEN <<>> ELSE text

\* re.sub(r'\s+', ' ', text): every run of whitespace becomes one blank
RECURSIVE CollapseSpaces(_)
CollapseSpaces(s) ==
    IF s = <<>> THEN <<>>
    ELSE IF IsSpace(Head(s))
         THEN <<" ">> \o CollapseSpaces(LStrip(s))
         ELSE <<Head(s)>> \o CollapseSpaces(Tail(s))

\* ContentExtractor.clean_text
CleanText(text) == Strip(CollapseSpaces(text))

\* ContentExtractor.extract_from_text
ExtractFromText(text) ==
    [title |-> "Extracted text", content |-> CleanText(text), summary |-> Missing]

\* ','.join(tags)
RECURSIVE Join(_)
Join(tags) ==
    IF tags = <<>> THEN <<>>
    ELSE IF Len(tags) = 1 THEN tags[1]
    ELSE tags[1] \o <<",">> \o Join(Tail(tags))

NoRecord ==
    [content_id |-> NoId, original_content |-> <<>>, content_type |-> None,
     title |-> None, summary |-> None, category |-> None,
     tags |-> <<>>, tags_type |-> "list", embedding |-> None, source_url |-> None]

NoLocals == [title |-> None, content |-> <<>>, embedding |-> None, content_record |-> NoRecord]

NoResult ==
    [status |-> "none", exc |-> None, msg |-> <<>>, record |-> NoRecord,
     step |-> None, raw |-> None, rawmsg |-> <<>>]

NoOp ==
    [kind |-> "none", url |-> None, text |-> <<>>, title |-> None,
     custom_category |-> None, custom_tags |-> NoneTags, caller |-> None]

\* invocation counts, what the extractor and the categorizer answered, and the
\* size of the collection when the call began (history)
ZeroCalls ==
    [extract |-> 0, embed |-> 0, categorize |-> 0, store |-> 0,
     extracted |-> [kind |-> "none"], categorized |-> Missing, db0 |-> 0]

\* pydantic validation of ContentMetadata(title=..., ...)
ValidContentMetadata(title) == title # None

\* pydantic validation of the ContentRecord constructor arguments
ValidContentRecord(a) ==
    /\ a.title # None
    /\ a.summary # None
    /\ a.category # None
    /\ a.tags_type = "list"
    /\ a.embedding # None

ExtractionExceptions ==
    { "URLFormatException", "NullContentException", "InvalidContentException" }

\* mutant: connectivity failures are re-raised unwrapped
WrapUrl_LeakConnectivity(exc, msg) ==
    IF exc \in { "ConnectionError", "TimeoutError" }
    THEN [exc |-> exc, msg |-> msg]
    ELSE [exc |-> "ContentStorageException", msg |-> <<"Content storage failed: ">> \o msg]

\* the except clauses of store_content_from_url
WrapUrl(exc, msg) ==
    IF exc \in ExtractionExceptions
    THEN [exc |-> "ContentStorageException", msg |-> <<"Failed to extract content: ">> \o msg]
    ELSE [exc |-> "ContentStorageException", msg |-> <<"Content storage failed: ">> \o msg]

\* the except clause of store_content_from_text
WrapText(exc, msg) ==
    [exc |-> "ContentStorageException", msg |-> <<"Text storage failed: ">> \o msg]

\* retry=retry_if_exception_type((ConnectionError, TimeoutError))
RetryIfExceptionType(exc) == exc \in { "ConnectionError", "TimeoutError" }

\* the retry decorator: what happens to an exception leaving attempt n
RetryDecision(exc, n) ==
    IF ~RetryIfExceptionType(exc) THEN "raise"
    ELSE IF n >= StopAfterAttempt THEN "retry_error"
    ELSE "retry"

\* an exception is raised inside the try block of the workflow at `step`
Fail(step, rawExc, rawMsg) ==
    LET w == IF op.kind = "url" THEN WrapUrl(rawExc, rawMsg) ELSE WrapText(rawExc, rawMsg)
        d == RetryDecision(w.exc, attempt)
    IN
    IF d = "retry"
    THEN /\ pc' = "extract"
         /\ attempt' = attempt + 1
         /\ loc' = NoLocals
         /\ res' = res
    ELSE /\ pc' = "idle"
         /\ attempt' = attempt
         /\ loc' = NoLocals
         /\ res' = [status |-> "raise",
                    exc |-> IF d = "retry_error" THEN "RetryError" ELSE w.exc,
                    msg |-> w.msg, record |-> NoRecord,
                    step |-> step, raw |-> rawExc, rawmsg |-> rawMsg]

BeginCall(o) ==
    /\ op' = o
    /\ pc' = "extract"
    /\ attempt' = 1
    /\ loc' = NoLocals
    /\ calls' = [ZeroCalls EXCEPT !.db0 = Len(db)]
    /\ res' = NoResult

NoBulk ==
    [status |-> "idle", urls |-> <<>>, idx |-> 1, waiting |-> FALSE,
     custom_category |-> None, custom_tags |-> NoneTags,
     results |-> [success_count |-> 0, failed_count |-> 0, total |-> 0,
                  success |-> <<>>, failed |-> <<>>],
     log |-> <<>>, exc |-> None]

NoQuery == [kind |-> "none", status |-> "none"]

NoRetrieve ==
    [status |-> "none", exc |-> None, msg |-> <<>>, category |-> None,
     matched |-> <<>>, constructed |-> <<>>, records |-> <<>>]

Idle == pc = "idle" /\ bulk.status # "running"

\* store_content_from_url is called
StoreContentFromUrl(url, custom_category, custom_tags) ==
    /\ Idle
    /\ Len(db) < MaxStore
    /\ BeginCall([kind |-> "url", url |-> url, text |-> <<>>, title |-> None,
                  custom_category |-> custom_category, custom_tags |-> custom_tags,
                  caller |-> "user"])
    /\ bulk' = NoBulk /\ retr' = NoRetrieve
    /\ UNCHANGED db

\* store_content_from_text is called
StoreContentFromText(text, title, custom_category, custom_tags) ==
    /\ Idle
    /\ Len(db) < MaxStore
    /\ BeginCall([kind |-> "text", url |-> None, text |-> text, title |-> title,
                  custom_category |-> custom_category, custom_tags |-> custom_tags,
                  caller |-> "user"])
    /\ bulk' = NoBulk /\ retr' = NoRetrieve
    /\ UNCHANGED db

\* mutant: emptiness is tested on the unstripped content
BlankContent_NoStrip(content) == OrEmpty(content) = <<>>

\* content_text = (extracted_content.get("content") or "").strip(); not content_text
BlankContent(content) == Strip(OrEmpty(content)) = <<>>

\* Step 1 of store_content_from_url; o is what extract_from_url does
ExtractFromUrlStep(o) ==
    /\ pc = "extract" /\ op.kind = "url"
    /\ calls' = [calls EXCEPT !.extract = @ + 1, !.extracted = o]
    /\ IF o.kind = "raise" THEN Fail("extract", o.exc, o.msg)
       ELSE IF o.kind = "notdict"
       THEN Fail("extract", "ContentStorageException",
                 <<"Content extraction failed: Invalid content format">>)
       ELSE IF o.error # <<>>
       THEN Fail("extract", "ContentStorageException",
                 <<"Content extraction failed: ">> \o o.error)
       ELSE IF BlankContent(o.content)
       THEN Fail("extract", "ContentStorageException", <<"No content extracted">>)
       ELSE /\ pc' = "embed"
            /\ loc' = [loc EXCEPT !.title = Get(o.title, "No Title"),
                                  !.content = o.content]
            /\ UNCHANGED <<attempt, res>>
    /\ UNCHANGED <<op, db, bulk, retr>>

\* Step 1 of store_content_from_text
ExtractFromTextStep ==
    LET extracted_text == ExtractFromText(op.text) IN
    /\ pc = "extract" /\ op.kind = "text"
    /\ calls' = [calls EXCEPT !.extract = @ + 1,
                              !.extracted = [kind |-> "dict", error |-> <<>>,
                                             title |-> extracted_text.title,
                                             content |-> extracted_text.content]]
    /\ IF BlankContent(extracted_text.content)
       THEN Fail("extract", "ContentStorageException",
                 <<"No valid text content provided">>)
       ELSE /\ pc' = "embed"
            /\ loc' = [loc EXCEPT !.title = Get(extracted_text.title, "No Title"),
                                  !.content = extracted_text.content]
            /\ UNCHANGED <<attempt, res>>
    /\ UNCHANGED <<op, db, bulk, retr>>

\* Step 2: embedding_service.generate_embedding
EmbedStep(o) ==
    /\ pc = "embed"
    /\ calls' = [calls EXCEPT !.embed = @ + 1]
    /\ IF o.kind = "raise" THEN Fail("embed", o.exc, o.msg)
       ELSE /\ pc' = "categorize"
            /\ loc' = [loc EXCEPT !.embedding = o.value]
            /\ UNCHANGED <<attempt, res>>
    /\ UNCHANGED <<op, db, bulk, retr>>

\* mutant: custom_category is ignored
ChooseCategory_IgnoreCustom(custom_category, cat_result) ==
    Get(cat_result.category, None)

\* the category / tags / summary chosen in step 3
ChooseCategory(custom_category, cat_result) ==
    IF custom_category # None THEN custom_category ELSE Get(cat_result.category, None)

ChooseTags(custom_category, custom_tags, cat_result) ==
    IF custom_category # None
    THEN (IF custom_tags # NoneTags THEN custom_tags ELSE <<>>)
    ELSE (IF custom_tags # NoneTags THEN custom_tags
          ELSE IF cat_result.tags = MissingTags THEN <<>> ELSE cat_result.tags)

ChooseSummary(kind, cat_result) ==
    IF kind = "url" THEN Get(cat_result.summary, "")
    ELSE Get(ExtractFromText(<<>>).summary, "")

\* the arguments of the ContentRecord constructor in step 5
RecordArgs(o, l, cat_result, content_id) ==
    [content_id |-> content_id,
     original_content |-> l.content,
     content_type |-> o.kind,
     title |-> l.title,
     summary |-> ChooseSummary(o.kind, cat_result),
     category |-> ChooseCategory(o.custom_category, cat_result),
     tags |-> ChooseTags(o.custom_category, o.custom_tags, cat_result),
     tags_type |-> "list",
     embedding |-> l.embedding,
     source_url |-> IF o.kind = "url" THEN o.url ELSE None]

\* Steps 3-5: categorization_service.categorize_content, then the metadata and
\* the record are assembled
CategorizeStep(o) ==
    /\ pc = "categorize"
    /\ calls' = [calls EXCEPT !.categorize = @ + 1,
                              !.categorized = IF o.kind = "raise" THEN Missing
                                              ELSE o.value.category]
    /\ IF o.kind = "raise" THEN Fail("categorize", o.exc, o.msg)
       ELSE IF ~ValidContentMetadata(loc.title)
       THEN Fail("metadata", "ValidationError",
                 <<"1 validation error for ContentMetadata">>)
       ELSE LET args == RecordArgs(op, loc, o.value, <<"rec", Len(db) + 1>>) IN
            IF ~ValidContentRecord(args)
            THEN Fail("record", "ValidationError",
                      <<"1 validation error for ContentRecord">>)
            ELSE /\ pc' = "store"
                 /\ loc' = [loc EXCEPT !.content_record = args]
                 /\ UNCHANGED <<attempt, res>>
    /\ UNCHANGED <<op, db, bulk, retr>>

\* VectorDatabase.store: the entry added to the collection at time `now`
VdbStore(content_dict, category, doc_id, now) ==
    [id |-> doc_id,
     document |-> content_dict.original_content,
     metadata |-> [title |-> content_dict.title,
                   category |-> category,
                   timestamp |-> now,
                   url |-> content_dict.source_url,
                   tags |-> Join(content_dict.tags),
                   summary |-> content_dict.summary],
     origin |-> content_dict]   \* history: the record this entry was made from

\* datetime.now().timestamp(): the clock has advanced since the last insertion
Now(entries) == Len(entries) + 1

\* Step 6: vector_database.store, then the record is returned
StoreStep(o) ==
    /\ pc = "store"
    /\ calls' = [calls EXCEPT !.store = @ + 1]
    /\ IF o.kind = "raise"
       THEN Fail("store", o.exc, o.msg) /\ UNCHANGED db
       ELSE /\ db' = Append(db, VdbStore(loc.content_record, loc.content_record.category,
                                         Str(<<"doc", Len(db) + 1>>), Now(db)))
            /\ res' = [NoResult EXCEPT !.status = "return",
                                       !.record = loc.content_record]
            /\ pc' = "idle"
            /\ loc' = NoLocals
            /\ UNCHANGED attempt
    /\ UNCHANGED <<op, bulk, retr>>

MgrInit ==
    /\ pc = "idle"
    /\ op = NoOp
    /\ attempt = 1
    /\ loc = NoLocals
    /\ calls = ZeroCalls
    /\ res = NoResult
    /\ db = <<>>
    /\ bulk = NoBulk
    /\ retr = NoRetrieve
    /\ qry = NoQuery

(***************************************************************************)
(* store_bulk_urls                                                         *)
(***************************************************************************)
\* store_bulk_urls is called: the results dictionary is initialised
StoreBulkUrls(urls, custom_category, custom_tags) ==
    /\ Idle
    /\ Len(db) + Len(urls) <= MaxBulkStore
    /\ bulk' = [NoBulk EXCEPT
                  !.status = IF urls = <<>> THEN "done" ELSE "running",
                  !.urls = urls,
                  !.custom_category = custom_category,
                  !.custom_tags = custom_tags,
                  !.results.total = Len(urls)]
    /\ op' = NoOp /\ res' = NoResult /\ calls' = ZeroCalls /\ retr' = NoRetrieve
    /\ UNCHANGED <<pc, attempt, loc, db>>

\* loop body, first half: store_content_from_url(url, custom_category, custom_tags)
BulkCall ==
    /\ bulk.status = "running" /\ ~bulk.waiting /\ pc = "idle"
    /\ BeginCall([kind |-> "url", url |-> bulk.urls[bulk.idx], text |-> <<>>,
                  title |-> None, custom_category |-> bulk.custom_category,
                  custom_tags |-> bulk.custom_tags, caller |-> "bulk"])
    /\ bulk' = [bulk EXCEPT
                  !.waiting = TRUE,
                  !.log = Append(@, [url |-> bulk.urls[bulk.idx],
                                     custom_category |-> bulk.custom_category,
                                     custom_tags |-> bulk.custom_tags])]
    /\ UNCHANGED <<db, retr>>

\* mutant: the first failure ends the loop
BulkAfter_AbortOnFailure(b, r) ==
    IF r.status = "raise" \/ b.idx = Len(b.urls) THEN "done" ELSE "running"

\* the loop goes on to the next URL; an exception that is not caught leaves it
BulkAfter(b, r) ==
    IF r.status = "raise" /\ r.exc # "ContentStorageException" THEN "aborted"
    ELSE IF b.idx = Len(b.urls) THEN "done" ELSE "running"

\* mutant: a failure is counted but not recorded
BulkRecord_DropFailed(results, url, r) ==
    IF r.status = "return"
    THEN [results EXCEPT
            !.success_count = @ + 1,
            !.success = Append(@, [url |-> url, content_id |-> Str(r.record.content_id)])]
    ELSE [results EXCEPT !.failed_count = @ + 1]

\* the try / except ContentStorageException of the loop body
BulkRecord(results, url, r) ==
    IF r.status = "return"
    THEN [results EXCEPT
            !.success_count = @ + 1,
            !.success = Append(@, [url |-> url, content_id |-> Str(r.record.content_id)])]
    ELSE IF r.exc = "ContentStorageException"
    THEN [results EXCEPT
            !.failed_count = @ + 1,
            !.failed = Append(@, [url |-> url, error |-> r.msg])]
    ELSE results

\* loop body, second half: the outcome of the call is recorded
BulkCollect ==
    /\ bulk.status = "running" /\ bulk.waiting /\ pc = "idle"
    /\ bulk' = [bulk EXCEPT
                  !.waiting = FALSE,
                  !.results = BulkRecord(@, bulk.urls[bulk.idx], res),
                  !.status = BulkAfter(bulk, res),
                  !.exc = IF BulkAfter(bulk, res) = "aborted" THEN res.exc ELSE None,
                  !.idx = @ + 1]
    /\ UNCHANGED <<pc, op, attempt, loc, calls, res, db, retr>>

(***************************************************************************)
(* retrieve_content_by_category                                            *)
(***************************************************************************)
NoLimit == -1

\* dict.get(key, default) on a stored metadata dictionary
MetaGet(m, key, default) == IF key \in DOMAIN m THEN m[key] ELSE default

\* mutant: the where-filter is dropped
SelectCategory_All(entries, category) == entries

RECURSIVE SelectCategory(_, _)
SelectCategory(entries, category) ==
    IF entries = <<>> THEN <<>>
    ELSE (IF Head(entries).metadata.category = category THEN <<Head(entries)>> ELSE <<>>)
            \o SelectCategory(Tail(entries), category)

\* VectorDatabase.get_by_category: collection.get(where={"category": category}, limit=limit)
GetByCategory(entries, category, limit) ==
    LET m == SelectCategory(entries, category) IN
    IF limit = NoLimit \/ limit >= Len(m) THEN m ELSE SubSeq(m, 1, limit)

\* the arguments of the ContentRecord constructor in retrieve_content_by_category
ReconstructArgs(entry, category, embedding) ==
    [content_id |-> entry.id,
     original_content |-> entry.document,
     content_type |-> MetaGet(entry.metadata, "content_type", "unknown"),
     title |-> entry.metadata.title,
     summary |-> MetaGet(entry.metadata, "summary", ""),
     category |-> category,
     tags |-> MetaGet(entry.metadata, "tags", <<>>),
     tags_type |-> IF "tags" \in DOMAIN entry.metadata THEN "str" ELSE "list",
     embedding |-> embedding,
     source_url |-> MetaGet(entry.metadata, "url", None)]

RetrieveFailure(category, matched, constructed, msg) ==
    [status |-> "raise", exc |-> "ContentRetrievalException",
     msg |-> <<"Content retrieval failed: ">> \o msg,
     category |-> category, matched |-> matched, constructed |-> constructed,
     records |-> <<>>]

\* the body of retrieve_content_by_category over the collection `entries`; o is
\* what the store's get does: it raises, or it returns the matching entries
\* with or without their embeddings
RetrieveResult(entries, category, limit, o) ==
    IF o.kind = "raise"
    THEN RetrieveFailure(category, <<>>, <<>>, o.msg)
    ELSE LET result == GetByCategory(entries, category, limit)
             args == [i \in 1 .. Len(result) |->
                        ReconstructArgs(result[i], category,
                                        IF o.embeddings THEN "vec" ELSE None)]
         IN IF Len(result) > 0 /\ ~o.embeddings
            THEN RetrieveFailure(category, result, <<>>,
                                 <<"'NoneType' object is not subscriptable">>)
            ELSE IF \E i \in 1 .. Len(result) : ~ValidContentRecord(args[i])
            THEN LET first == CHOOSE i \in 1 .. Len(result) :
                                /\ ~ValidContentRecord(args[i])
                                /\ \A j \in 1 .. (i - 1) : ValidContentRecord(args[j])
                 IN RetrieveFailure(category, result, SubSeq(args, 1, first),
                                    <<"1 validation error for ContentRecord">>)
            ELSE [status |-> "return", exc |-> None, msg |-> <<>>,
                  category |-> category, matched |-> result,
                  constructed |-> args, records |-> args]

\* retrieve_content_by_category is called
RetrieveContentByCategory(category, limit, o) ==
    /\ Idle
    /\ retr' = RetrieveResult(db, category, limit, o)
    /\ op' = NoOp /\ res' = NoResult /\ calls' = ZeroCalls /\ bulk' = NoBulk
    /\ UNCHANGED <<pc, attempt, loc, db>>

(***************************************************************************)
(* VectorDatabase queries and the manager's date-range / similarity search *)
(***************************************************************************)
\* a Python argument together with its runtime type
IntArg(n) == [type |-> "int", value |-> n]
NoneArg == [type |-> "NoneType", value |-> 0]
StrArg == [type |-> "str", value |-> 0]

\* a query operation runs on an idle manager and clears the traces of the
\* other operations.  Queries leave the collection as it is, so every outcome
\* is reached by one query per state of the collection.
CanQuery == Idle /\ qry = NoQuery

QueryOnly ==
    /\ CanQuery
    /\ op' = NoOp /\ res' = NoResult /\ calls' = ZeroCalls
    /\ bulk' = NoBulk /\ retr' = NoRetrieve
    /\ UNCHANGED <<pc, attempt, loc, db>>

\* where={"$and": [{"timestamp": {"$gte": start}}, {"timestamp": {"$lte": end}}]}
RECURSIVE SelectDateRange(_, _, _)
SelectDateRange(entries, start, end) ==
    IF entries = <<>> THEN <<>>
    ELSE (IF Head(entries).metadata.timestamp >= start
             /\ Head(entries).metadata.timestamp <= end
          THEN <<Head(entries)>> ELSE <<>>)
            \o SelectDateRange(Tail(entries), start, end)

\* collection.get(limit=limit, offset=offset) over the selected entries; o is
\* what the collection does: it raises, or it answers; a limit that is not an
\* integer is either rejected or not applied
CollectionGet(selected, limit, offset, o) ==
    LET rest == SubSeq(selected, offset + 1, Len(selected)) IN
    IF o.kind = "raise" THEN [kind |-> "raise", msg |-> o.msg, entries |-> <<>>]
    ELSE IF limit.type = "str"
    THEN (IF o.strict
          THEN [kind |-> "raise", msg |-> <<"Expected limit to be an int">>,
                entries |-> <<>>]
          ELSE [kind |-> "ok", msg |-> <<>>, entries |-> rest])
    ELSE IF limit.type = "NoneType" \/ limit.value >= Len(rest)
    THEN [kind |-> "ok", msg |-> <<>>, entries |-> rest]
    ELSE [kind |-> "ok", msg |-> <<>>, entries |-> SubSeq(rest, 1, limit.value)]

\* VectorDatabase.query_by_date_range(start_date, end_date, k, offset)
QueryByDateRange(entries, start_date, end_date, k, offset, o) ==
    LET r == CollectionGet(SelectDateRange(entries, start_date, end_date), k, offset, o)
    IN IF r.kind = "raise"
       THEN [r EXCEPT !.msg = <<"Failed to query by date range: ">> \o @]
       ELSE r

\* ContentManager.retrieve_content_by_date_range: the category is handed to
\* the store as the third positional argument
RetrieveContentByDateRange(start_date, end_date, category, o) ==
    LET k == IF category = None THEN NoneArg ELSE StrArg
        r == QueryByDateRange(db, start_date, end_date, k, 0, o)
    IN
    /\ QueryOnly
    /\ qry' = [kind |-> "date_range", start_date |-> start_date,
               end_date |-> end_date, category |-> category, store |-> o,
               status |-> IF r.kind = "raise" THEN "raise" ELSE "return",
               exc |-> IF r.kind = "raise" THEN "ContentRetrievalException" ELSE None,
               msg |-> IF r.kind = "raise"
                       THEN <<"Content retrieval failed: ">> \o r.msg ELSE <<>>,
               value |-> r.entries]

\* the parameters of VectorDatabase.similarity_search
SimilaritySearchParams == { "query_texts", "where", "k" }

RECURSIVE Reverse(_)
Reverse(q) == IF q = <<>> THEN <<>> ELSE Append(Reverse(Tail(q)), Head(q))

\* VectorDatabase.similarity_search: collection.query(query_texts, n_results=k,
\* where=where); the ranking is the collection's
VdbSimilaritySearch(entries, where, k, o) ==
    LET cand == IF where = None THEN entries ELSE SelectCategory(entries, where)
        ranked == IF o.order = "newest" THEN Reverse(cand) ELSE cand
    IN IF o.kind = "raise"
       THEN [kind |-> "raise",
             msg |-> <<"Failed to perform similarity search: ">> \o o.msg,
             entries |-> <<>>]
       ELSE [kind |-> "ok", msg |-> <<>>,
             entries |-> IF k >= Len(ranked) THEN ranked ELSE SubSeq(ranked, 1, k)]

\* ContentManager.similarity_search: the store is called with the keywords
\* query_texts, k and category
SimilaritySearch(query_text, top_k, category_filter, o) ==
    LET keywords == { "query_texts", "k", "category" }
        r == IF keywords \subseteq SimilaritySearchParams
             THEN VdbSimilaritySearch(db, category_filter, top_k, o)
             ELSE [kind |-> "raise",
                   msg |-> <<"similarity_search() got an unexpected keyword argument ",
                             CHOOSE w \in keywords : w \notin SimilaritySearchParams>>,
                   entries |-> <<>>]
    IN
    /\ QueryOnly
    /\ qry' = [kind |-> "similarity", query_text |-> query_text, top_k |-> top_k,
               category_filter |-> category_filter, store |-> o,
               reached_store |-> keywords \subseteq SimilaritySearchParams,
               status |-> IF r.kind = "raise" THEN "raise" ELSE "return",
               exc |-> IF r.kind = "raise" THEN "ContentRetrievalException" ELSE None,
               msg |-> IF r.kind = "raise"
                       THEN <<"Similarity search failed: ">> \o r.msg ELSE <<>>,
               value |-> r.entries]

(***************************************************************************)
(* QuizService                                                             *)
(***************************************************************************)
Generators == { "generate_mcq_quiz", "generate_fill_in_blank_quiz",
                "generate_true_false_quiz" }

\* mutant: one more difficulty is allowed
Difficulties_WithExtreme == { "easy", "medium", "hard", "mixed", "extreme" }

Difficulties == { "easy", "medium", "hard", "mixed" }

\* mutant: five choices pass for a multiple-choice question
ChoicesRejected_AtLeast(generator, q) ==
    CASE generator = "generate_mcq_quiz" -> Len(q.choice) < 4
      [] generator = "generate_fill_in_blank_quiz" -> Len(q.choice) < 2
      [] generator = "generate_true_false_quiz" -> Len(q.choice) # 2

\* the test on len(q.choice) of each generator
ChoicesRejected(generator, q) ==
    CASE generator = "generate_mcq_quiz" -> Len(q.choice) # 4
      [] generator = "generate_fill_in_blank_quiz" -> Len(q.choice) < 2
      [] generator = "generate_true_false_quiz" -> Len(q.choice) # 2

ChoicesMessage(generator) ==
    CASE generator = "generate_mcq_quiz" -> " should have 4 choices."
      [] generator = "generate_fill_in_blank_quiz" -> " should have at least 2 choices."
      [] generator = "generate_true_false_quiz" ->
            " should have exactly 2 choices (True/False)."

\* not q.explanation.strip()
ExplanationMissing(q) == Strip(q.explanation) = <<>>

\* the validation loop: the error of the first offending question, if any
RECURSIVE ValidateQuestions(_, _)
ValidateQuestions(generator, questions) ==
    IF questions = <<>> THEN <<>>
    ELSE IF ChoicesRejected(generator, Head(questions))
    THEN <<"Question ", ToString(Head(questions).number), ChoicesMessage(generator)>>
    ELSE IF ExplanationMissing(Head(questions))
    THEN <<"Explanation is missing for question ", ToString(Head(questions).number)>>
    ELSE ValidateQuestions(generator, Tail(questions))

GeneratorResult(status, exc, msg, quiz, invoked) ==
    [status |-> status, exc |-> exc, msg |-> msg, quiz |-> quiz,
     provider_calls |-> invoked]

NoQuiz == [title |-> None, questions |-> <<>>]

\* generate_mcq_quiz / generate_fill_in_blank_quiz / generate_true_false_quiz;
\* response is what the completion provider does
GenerateQuiz(generator, content_summaries, category, num_questions, difficulty, response) ==
    IF content_summaries = <<>>
       \/ \A i \in 1 .. Len(content_summaries) : Strip(content_summaries[i]) = <<>>
    THEN GeneratorResult("raise", "ValueError",
                         <<"Content summaries cannot be blank.">>, NoQuiz, 0)
    ELSE IF num_questions <= 0
    THEN GeneratorResult("raise", "ValueError",
                         <<"Number of questions must be greater than zero.">>, NoQuiz, 0)
    ELSE IF difficulty \notin Difficulties
    THEN GeneratorResult("raise", "ValueError",
                         <<"difficulty must be: easy, medium, hard, or mixed.">>, NoQuiz, 0)
    ELSE IF response.kind = "raise"
    THEN GeneratorResult("raise", "RuntimeError",
                         <<"Failed to generate quiz: ">> \o response.msg, NoQuiz, 1)
    ELSE LET err == ValidateQuestions(generator, response.quiz.questions) IN
         IF err # <<>>
         THEN GeneratorResult("raise", "RuntimeError",
                              <<"Failed to generate quiz: ">> \o err, NoQuiz, 1)
         ELSE GeneratorResult("return", None, <<>>, response.quiz, 1)

\* a generator of the QuizService is called directly
CallGenerator(generator, content_summaries, category, num_questions, difficulty, response) ==
    /\ QueryOnly
    /\ qry' = [kind |-> "generator", generator |-> generator,
               content_summaries |-> content_summaries, category |-> category,
               num_questions |-> num_questions, difficulty |-> difficulty,
               response |-> response,
               result |-> GenerateQuiz(generator, content_summaries, category,
                                       num_questions, difficulty, response)]

(***************************************************************************)
(* ContentManager.generate_quiz_from_category                              *)
(***************************************************************************)
\* the generator selected by quiz_type (None when there is none)
GeneratorFor(quiz_type) ==
    CASE quiz_type = "mcq" -> "generate_mcq_quiz"
      [] quiz_type = "fill_in_blank" -> "generate_fill_in_blank_quiz"
      [] quiz_type = "true_false" -> "generate_true_false_quiz"
      [] OTHER -> None

\* [record.summary for record in content_records if record.summary]
RECURSIVE Summaries(_)
Summaries(records) ==
    IF records = <<>> THEN <<>>
    ELSE (IF Head(records).summary # "" THEN <<Head(records).summary>> ELSE <<>>)
            \o Summaries(Tail(records))

\* a summary as the text the generator receives
SummaryText(summary) == IF summary = "" THEN <<>> ELSE <<summary>>

\* the try block of generate_quiz_from_category; the exception it ends with
\* has already been through the except clauses
QuizWorkflow(entries, category, num_questions, difficulty, quiz_type, o, response) ==
    LET r == RetrieveResult(entries, category, NoLimit, o)
        content_summaries == Summaries(r.records)
        generator == GeneratorFor(quiz_type)
        g == GenerateQuiz(generator,
                          [i \in 1 .. Len(content_summaries) |->
                              SummaryText(content_summaries[i])],
                          category, num_questions, difficulty, response)
        failed(msg) == [status |-> "raise", exc |-> "QuizGenerationException",
                        msg |-> <<"Quiz generation failed: ">> \o msg,
                        quiz |-> NoQuiz, invoked |-> <<>>, retrieved |-> r]
        invocation == [generator |-> generator, content_summaries |-> content_summaries,
                       category |-> category, num_questions |-> num_questions,
                       difficulty |-> difficulty]
    IN
    IF r.status = "raise" THEN failed(r.msg)
    ELSE IF r.records = <<>>
    THEN failed(<<"No content found", " for category: ", category>>)
    ELSE IF content_summaries = <<>> THEN failed(<<"No content found">>)
    ELSE IF generator = None THEN failed(<<"Unsupported quiz type", ": ", quiz_type>>)
    ELSE IF g.status = "raise"
    THEN [failed(g.msg) EXCEPT !.invoked = <<invocation>>]
    ELSE [status |-> "return", exc |-> None, msg |-> <<>>, quiz |-> g.quiz,
          invoked |-> <<invocation>>, retrieved |-> r]

\* generate_quiz_from_category under its retry decorator
GenerateQuizFromCategory(category, num_questions, difficulty, quiz_type, o, response) ==
    LET w == QuizWorkflow(db, category, num_questions, difficulty, quiz_type, o, response)
        d == IF w.status = "raise" THEN RetryDecision(w.exc, 1) ELSE "return"
    IN
    /\ QueryOnly
    /\ qry' = [kind |-> "quiz", category |-> category, num_questions |-> num_questions,
               difficulty |-> difficulty, quiz_type |-> quiz_type, store |-> o,
               status |-> w.status,
               exc |-> IF d = "raise" THEN w.exc ELSE IF d = "return" THEN None ELSE d,
               msg |-> w.msg, quiz |-> w.quiz,
               invoked |-> w.invoked, matched |-> w.retrieved.matched]

(***************************************************************************)
(* tools/query_content                                                     *)
(***************************************************************************)
\* mutant: only None counts as absent
Truthy_NotNone(x) == x # None

\* truthiness of an optional string
Truthy(x) == x # None /\ x # ""

\* datetime.fromisoformat on the strings used here (0 for a malformed string)
FromIsoFormat(text) ==
    CASE text = "1970-01-01T00:00:01" -> 1
      [] text = "1970-01-01T00:00:02" -> 2
      [] text = "1970-01-01T00:00:03" -> 3
      [] text = "1970-01-01T00:00:04" -> 4
      [] OTHER -> 0

\* VectorDatabase.get_by_category with its exception wrapper
VdbGetByCategory(entries, category, limit, o) ==
    IF o.kind = "raise"
    THEN [kind |-> "raise", msg |-> <<"Failed to get by category: ">> \o o.msg,
          entries |-> <<>>]
    ELSE [kind |-> "ok", msg |-> <<>>, entries |-> GetByCategory(entries, category, limit)]

\* the try block of query_content: the branch taken, the store queries issued
\* and the result or the exception raised inside it
QueryContentBody(entries, request, o) ==
    IF Truthy(request.start_date) /\ Truthy(request.end_date)
    THEN IF FromIsoFormat(request.start_date) = 0 \/ FromIsoFormat(request.end_date) = 0
         THEN [branch |-> "date_range", queries |-> <<>>, kind |-> "raise",
               raw |-> "ValueError", msg |-> <<"Invalid isoformat string">>,
               entries |-> <<>>]
         ELSE LET r == QueryByDateRange(entries, FromIsoFormat(request.start_date),
                                        FromIsoFormat(request.end_date),
                                        IntArg(request.k), 0, o)
              IN [branch |-> "date_range", queries |-> <<"query_by_date_range">>,
                  kind |-> r.kind,
                  raw |-> IF r.kind = "raise" THEN "VectorDatabaseError" ELSE None,
                  msg |-> r.msg,
                  entries |-> r.entries]
    ELSE IF Truthy(request.category)
    THEN LET r == VdbGetByCategory(entries, request.category, request.k, o)
         IN [branch |-> "category", queries |-> <<"get_by_category">>,
             kind |-> r.kind,
             raw |-> IF r.kind = "raise" THEN "VectorDatabaseError" ELSE None,
             msg |-> r.msg,
             entries |-> r.entries]
    ELSE [branch |-> "rejected", queries |-> <<>>, kind |-> "raise",
          raw |-> "ValueError",
          msg |-> <<"Either date_range or category must be provided for querying content.">>,
          entries |-> <<>>]

\* query_content(request)
QueryContent(request, o) ==
    LET b == QueryContentBody(db, request, o) IN
    /\ QueryOnly
    /\ qry' = [kind |-> "query_content", request |-> request, store |-> o,
               branch |-> b.branch, queries |-> b.queries, raw |-> b.raw,
               status |-> IF b.kind = "raise" THEN "raise" ELSE "return",
               exc |-> IF b.kind = "raise" THEN "VectorDatabaseError" ELSE None,
               msg |-> IF b.kind = "raise"
                       THEN <<"Failed to query content: ">> \o b.msg ELSE <<>>,
               value |-> b.entries]

(***************************************************************************)
(* Inputs                                                                  *)
(***************************************************************************)
Urls == { "u1", "u2" }
CustomCategories == { None, "Science" }
CustomTags == { NoneTags, <<>>, << <<"t">> >> }
Texts == { <<" ">>, <<" ", "x">> }
TextTitles == { None, "My Notes" }

Raise(exc, msg) ==
    [kind |-> "raise", exc |-> exc, msg |-> msg, value |-> None]

Page(title, content) ==
    [kind |-> "dict", error |-> <<>>, title |-> title, content |-> content]

ExtractOutcomes ==
    { Raise("InvalidContentException", <<"Invalid content encoding.">>),
      Raise("ConnectionError", <<"Connection refused">>),
      [kind |-> "notdict", error |-> <<>>, title |-> Missing, content |-> NoneText],
      [kind |-> "dict", error |-> <<"Request timed out">>, title |-> Missing,
       content |-> NoneText],
      Page("T", NoneText), Page("T", <<>>), Page("T", <<" ">>),
      Page("T", <<"x">>), Page(Missing, <<"x">>), Page(None, <<"x">>) }

EmbedOutcomes ==
    { [kind |-> "ok", value |-> "vec"],
      Raise("ConnectionError", <<"Connection reset">>),
      Raise("TimeoutError", <<"timed out">>),
      Raise("Exception", <<"Embedding failed">>) }

CatResult(category, tags, summary) ==
    [kind |-> "ok", value |-> [category |-> category, tags |-> tags, summary |-> summary]]

CategorizeOutcomes ==
    { Raise("RuntimeError", <<"API Error occurred: ", "APIConnectionError">>),
      CatResult("Technology", << <<"ai">> >>, "S"),
      CatResult("Technology", MissingTags, Missing),
      CatResult(Missing, MissingTags, "S") }

StoreOutcomes ==
    { [kind |-> "ok"],
      Raise("VectorDatabaseError", <<"Failed to store content: ", "disk full">>),
      Raise("TimeoutError", <<"timed out">>) }

RetrieveCategories == { "Science", "Technology", "Empty" }
RetrieveLimits == { NoLimit, 1 }
GetOutcomes ==
    { [kind |-> "raise", msg |-> <<"Failed to get by category: ", "io error">>,
       embeddings |-> FALSE],
      [kind |-> "ok", msg |-> <<>>, embeddings |-> FALSE],
      [kind |-> "ok", msg |-> <<>>, embeddings |-> TRUE] }

StoreUrl ==
    /\ \E u \in Urls, cc \in CustomCategories, ct \in CustomTags :
          StoreContentFromUrl(u, cc, ct)
    /\ UNCHANGED <<catvars, qry>>

StoreText ==
    /\ \E t \in Texts, ti \in TextTitles, cc \in CustomCategories, ct \in CustomTags :
          StoreContentFromText(t, ti, cc, ct)
    /\ UNCHANGED <<catvars, qry>>

ExtractUrl == (\E o \in ExtractOutcomes : ExtractFromUrlStep(o)) /\ UNCHANGED <<catvars, qry>>
ExtractText == ExtractFromTextStep /\ UNCHANGED <<catvars, qry>>
Embed == (\E o \in EmbedOutcomes : EmbedStep(o)) /\ UNCHANGED <<catvars, qry>>
Categorize == (\E o \in CategorizeOutcomes : CategorizeStep(o)) /\ UNCHANGED <<catvars, qry>>
Store == (\E o \in StoreOutcomes : StoreStep(o)) /\ UNCHANGED <<catvars, qry>>

Retrieve ==
    /\ \E c \in RetrieveCategories, l \in RetrieveLimits, o \in GetOutcomes :
          RetrieveContentByCategory(c, l, o)
    /\ UNCHANGED <<catvars, qry>>

\* the collaborators' behaviours exercised under store_bulk_urls
BulkExtractOutcomes ==
    { Page("T", <<"x">>),
      [kind |-> "dict", error |-> <<"Request timed out">>, title |-> Missing,
       content |-> NoneText] }
BulkCategorizeOutcomes ==
    { CatResult("Technology", << <<"ai">> >>, "S") }
BulkStoreOutcomes ==
    { [kind |-> "ok"],
      Raise("TimeoutError", <<"timed out">>) }

RECURSIVE SeqsUpTo(_, _)
SeqsUpTo(S, n) ==
    IF n = 0 THEN { <<>> }
    ELSE LET shorter == SeqsUpTo(S, n - 1) IN
         shorter \cup { Append(q, x) : q \in shorter, x \in S }

BulkStart ==
    /\ \E urls \in SeqsUpTo(Urls, MaxUrls), cc \in CustomCategories,
          ct \in { NoneTags, << <<"t">> >> } :
          StoreBulkUrls(urls, cc, ct)
    /\ UNCHANGED <<catvars, qry>>

BulkIssue == BulkCall /\ UNCHANGED <<catvars, qry>>
BulkGather == BulkCollect /\ UNCHANGED <<catvars, qry>>
BulkExtract == (\E o \in BulkExtractOutcomes : ExtractFromUrlStep(o)) /\ UNCHANGED <<catvars, qry>>
BulkEmbed == EmbedStep([kind |-> "ok", value |-> "vec"]) /\ UNCHANGED <<catvars, qry>>
BulkCategorize ==
    (\E o \in BulkCategorizeOutcomes : CategorizeStep(o)) /\ UNCHANGED <<catvars, qry>>
BulkStore == (\E o \in BulkStoreOutcomes : StoreStep(o)) /\ UNCHANGED <<catvars, qry>>

\* ---- queries, searches and quizzes over a filled collection ----------
MaxQuestions == 2

DateTimes == 1 .. 3
QueryCategories == { None, "Science", "Technology" }
TopKs == { 1, 5 }

\* what the collection does with a get / query
CollectionOutcomes ==
    { [kind |-> "raise", msg |-> <<"io error">>, strict |-> TRUE, order |-> "oldest"],
      [kind |-> "ok", msg |-> <<>>, strict |-> TRUE, order |-> "oldest"],
      [kind |-> "ok", msg |-> <<>>, strict |-> FALSE, order |-> "newest"] }

ToolOutcomes == { o \in CollectionOutcomes : o.strict }

QueryCategorizeOutcomes ==
    { CatResult("Technology", << <<"ai">> >>, "S"),
      CatResult("Technology", MissingTags, Missing) }

ChoiceLists == { SubSeq(<<"A", "B", "C", "D", "E">>, 1, n) : n \in 1 .. 5 }
Explanations == { <<>>, <<" ">>, <<"e">> }
QuestionShapes == [choice : ChoiceLists, explanation : Explanations]

\* the quizzes a provider can answer with: up to MaxQuestions questions,
\* numbered in order
ProviderQuizzes ==
    { [title |-> "Quiz",
       questions |-> [i \in 1 .. Len(q) |->
                        [number |-> i, choice |-> q[i].choice,
                         explanation |-> q[i].explanation]]] :
         q \in SeqsUpTo(QuestionShapes, MaxQuestions) }

QuizResponses ==
    { [kind |-> "raise", msg |-> <<"provider unavailable">>, quiz |-> NoQuiz] }
        \cup { [kind |-> "ok", msg |-> <<>>, quiz |-> z] : z \in ProviderQuizzes }

SummaryLists == { <<>>, << <<" ">> >>, << <<"S">>, <<>> >> }
QuestionCounts == { 0, 5 }
DifficultyInputs == { "mixed", "extreme" }

\* one well-formed multiple-choice answer, and a provider failure
WorkflowResponses ==
    { [kind |-> "raise", msg |-> <<"provider unavailable">>, quiz |-> NoQuiz],
      [kind |-> "ok", msg |-> <<>>,
       quiz |-> [title |-> "Quiz",
                 questions |-> << [number |-> 1, choice |-> <<"A", "B", "C", "D">>,
                                   explanation |-> <<"e">>] >>]] }

QuizTypes == { "mcq", "fill_in_blank", "true_false", "essay" }

IsoInputs == { None, "1970-01-01T00:00:01", "1970-01-01T00:00:02", "yesterday" }
Requests ==
    [start_date : IsoInputs, end_date : IsoInputs,
     category : { None, "", "Technology" }, k : TopKs]

QStoreUrl ==
    /\ \E cc \in CustomCategories : StoreContentFromUrl("u1", cc, NoneTags)
    /\ qry' = NoQuery
    /\ UNCHANGED catvars

QExtract == ExtractFromUrlStep(Page("T", <<"x">>)) /\ UNCHANGED <<catvars, qry>>

QCategorize ==
    (\E o \in QueryCategorizeOutcomes : CategorizeStep(o)) /\ UNCHANGED <<catvars, qry>>

DateRange ==
    /\ CanQuery
    /\ \E s \in DateTimes, e \in DateTimes, c \in QueryCategories,
          o \in CollectionOutcomes : RetrieveContentByDateRange(s, e, c, o)
    /\ UNCHANGED catvars

Similarity ==
    /\ CanQuery
    /\ \E k \in TopKs, c \in QueryCategories, o \in CollectionOutcomes :
          SimilaritySearch(<<"x">>, k, c, o)
    /\ UNCHANGED catvars

QuizFromCategory ==
    /\ CanQuery
    /\ \E c \in RetrieveCategories, d \in DifficultyInputs, t \in QuizTypes,
          o \in GetOutcomes, r \in WorkflowResponses :
          GenerateQuizFromCategory(c, 5, d, t, o, r)
    /\ UNCHANGED catvars

QueryTool ==
    /\ CanQuery
    /\ \E request \in Requests, o \in ToolOutcomes : QueryContent(request, o)
    /\ UNCHANGED catvars

GeneratorCall(generator) ==
    /\ CanQuery
    /\ \E cs \in SummaryLists, n \in QuestionCounts, d \in DifficultyInputs,
          r \in QuizResponses : CallGenerator(generator, cs, "Technology", n, d, r)

GenerateMcqQuiz == GeneratorCall("generate_mcq_quiz") /\ UNCHANGED catvars
GenerateFillInBlankQuiz ==
    GeneratorCall("generate_fill_in_blank_quiz") /\ UNCHANGED catvars
GenerateTrueFalseQuiz == GeneratorCall("generate_true_false_quiz") /\ UNCHANGED catvars

Init == CatInit /\ MgrInit

NextCat == CategorizeStart \/ CategorizeAttempt

SpecCat == Init /\ [][NextCat]_vars

\* the manager's own service is built with the default cache_enabled=True
InitMgr == CatInit /\ cache_enabled = TRUE /\ MgrInit

NextIngest ==
    StoreUrl \/ StoreText \/ ExtractUrl \/ ExtractText
        \/ Embed \/ Categorize \/ Store \/ Retrieve

SpecIngest == InitMgr /\ [][NextIngest]_vars

NextBulk ==
    BulkStart \/ BulkIssue \/ BulkGather \/ BulkExtract
        \/ BulkEmbed \/ BulkCategorize \/ BulkStore

SpecBulk == InitMgr /\ [][NextBulk]_vars

NextQuery ==
    QStoreUrl \/ QExtract \/ BulkEmbed \/ QCategorize \/ BulkStore
        \/ DateRange \/ Similarity \/ QuizFromCategory \/ QueryTool

SpecQuery == InitMgr /\ [][NextQuery]_vars

NextQuiz == GenerateMcqQuiz \/ GenerateFillInBlankQuiz \/ GenerateTrueFalseQuiz

SpecQuiz == InitMgr /\ [][NextQuiz]_vars

\* the transient class the claims speak of: rate limit and timeout
IsTransientRef(exc) == exc = "RateLimitError" \/ exc = "APITimeoutError"

(***************************************************************************)
(* Claims about the CategorizationService                                 *)
(***************************************************************************)
SamePair(a, b) ==
    /\ a.status # "none" /\ b.status # "none"
    /\ a.title = b.title /\ a.content = b.content

\* the call was made with max_retries >= 1 (it did not fall through the loop)
AttemptsAllowed(s) == ~(s.status = "return" /\ s.value = None)

\* C3 (as stated): with caching enabled, two calls with identical
\* (title, content) invoke the provider at most once in total and both
\* return equal results.
C3_Original ==
    (/\ cache_enabled /\ SamePair(catPrev, catLast)
     /\ Strip(catLast.content) # <<>>
     /\ AttemptsAllowed(catPrev) /\ AttemptsAllowed(catLast)) =>
        /\ catPrev.invocations + catLast.invocations <= 1
        /\ catPrev.status = "return" /\ catLast.status = "return"
        /\ catPrev.value = catLast.value

\* C3 (amended): with caching enabled, once a call with (title, content) has
\* returned a provider result, every later call with identical
\* (title, content) invokes the provider zero times and returns an equal
\* result; when that earlier call needed a single attempt the provider is
\* invoked at most once in total.
C3_CacheHit ==
    (/\ cache_enabled /\ SamePair(catPrev, catLast)
     /\ catPrev.status = "return" /\ catPrev.value # None) =>
        /\ catLast.invocations = 0
        /\ catLast.status = "return"
        /\ catLast.value = catPrev.value
        /\ (catPrev.invocations <= 1 =>
                catPrev.invocations + catLast.invocations <= 1)

C3_Witness ==
    /\ cache_enabled /\ SamePair(catPrev, catLast)
    /\ catPrev.status = "return" /\ catPrev.value \in CatResults
    /\ catPrev.invocations = 1
    /\ catLast.fromCache /\ catLast.value = catPrev.value

\* a completed call that went past validation and the cache check
RanLoop(s) == s.status # "none" /\ ~s.fromCache /\ s.exc # "ValueError"

AllTransient(trace) ==
    \A i \in 1 .. Len(trace) : trace[i].kind = "raise" /\ IsTransientRef(trace[i].exc)

\* the retry policy of one completed call s
RetryPolicy(s) ==
    LET n == Len(s.trace) IN
    /\ s.invocations = n
    /\ n <= s.max_retries
    \* a transient failure before the last permitted attempt is retried
    /\ \A i \in 1 .. n :
          (s.trace[i].kind = "raise" /\ IsTransientRef(s.trace[i].exc)
             /\ i < s.max_retries) => i < n
    \* the first success ends the call with that result
    /\ \A i \in 1 .. n :
          s.trace[i].kind = "ok" =>
             /\ i = n /\ s.status = "return" /\ s.value = s.trace[i].value
    \* max_retries transient failures end it with 'Retry limit reached'
    /\ (AllTransient(s.trace) /\ n = s.max_retries) =>
          /\ s.status = "raise" /\ s.exc = "RuntimeError"
          /\ Contains(s.msg, <<"Retry limit reached. Failed due to transient error: ">>)

C4_WitnessExhausted ==
    /\ RanLoop(catLast) /\ catLast.invocations = DefaultMaxRetries
    /\ catLast.status = "raise"
    /\ AllTransient(catLast.trace)

NonTransientFailure(o) == o.kind = "raise" /\ ~IsTransientRef(o.exc)

\* C5: a provider failure outside the transient class ends the call at once
\* with RuntimeError; the provider is not invoked again after it.
C5_NoRetryOnOtherErrors ==
    /\ (catpc = "loop" =>
            \A i \in 1 .. Len(catcall.trace) : ~NonTransientFailure(catcall.trace[i]))
    /\ (catLast.status # "none" =>
            \A i \in 1 .. Len(catLast.trace) :
                NonTransientFailure(catLast.trace[i]) =>
                    /\ i = Len(catLast.trace)
                    /\ catLast.invocations = i
                    /\ catLast.status = "raise" /\ catLast.exc = "RuntimeError")

C5_Witness ==
    /\ catLast.status = "raise" /\ catLast.exc = "RuntimeError"
    /\ catLast.max_retries = DefaultMaxRetries
    /\ catLast.invocations = 2
    /\ catLast.trace[1].exc = "RateLimitError"
    /\ catLast.trace[2].exc = "APIConnectionError"

(***************************************************************************)
(* Claims about store_bulk_urls                                            *)
(***************************************************************************)
\* C1: the dictionary returned by store_bulk_urls has total = len(urls),
\* success_count + failed_count = total, len(success) = success_count and
\* len(failed) = failed_count, for every list of URLs and every pattern of
\* per-URL success or failure.
C1_BulkCounts ==
    /\ bulk.status # "aborted"
    /\ bulk.status = "done" =>
         /\ bulk.results.total = Len(bulk.urls)
         /\ bulk.results.success_count + bulk.results.failed_count = bulk.results.total
         /\ Len(bulk.results.success) = bulk.results.success_count
         /\ Len(bulk.results.failed) = bulk.results.failed_count

C1_Witness ==
    /\ bulk.status = "done"
    /\ Len(bulk.urls) = 3 /\ bulk.urls[1] = bulk.urls[3]
    /\ bulk.results.success_count = 2
    /\ bulk.results.failed_count = 1

\* number of store_content_from_url calls the loop has made so far
BulkIssued == IF bulk.waiting THEN bulk.idx ELSE bulk.idx - 1

\* C2: store_bulk_urls calls store_content_from_url exactly once per URL, in
\* input order, with custom_category and custom_tags unchanged; a failing URL
\* is recorded as {url, error} in failed and the URLs after it are still
\* processed.
C2_BulkIsolation ==
    /\ bulk.status # "aborted"
    /\ bulk.status \in {"running", "done"} =>
         /\ Len(bulk.log) = BulkIssued
         /\ \A i \in 1 .. Len(bulk.log) :
               bulk.log[i] = [url |-> bulk.urls[i],
                              custom_category |-> bulk.custom_category,
                              custom_tags |-> bulk.custom_tags]
         /\ (bulk.status = "done" => Len(bulk.log) = Len(bulk.urls))
         /\ (bulk.waiting =>
               /\ op.url = bulk.urls[bulk.idx]
               /\ op.custom_category = bulk.custom_category
               /\ op.custom_tags = bulk.custom_tags)
         /\ (~bulk.waiting /\ bulk.idx > 1 /\ res.status = "raise") =>
               /\ bulk.results.failed # <<>>
               /\ bulk.results.failed[Len(bulk.results.failed)] =
                      [url |-> bulk.urls[bulk.idx - 1], error |-> res.msg]

C2_Witness ==
    /\ bulk.status = "done"
    /\ Len(bulk.urls) = 3
    /\ Len(bulk.results.failed) = 1
    /\ bulk.results.failed[1].url = bulk.urls[1]
    /\ Len(bulk.results.success) = 2
    /\ bulk.custom_category = "Science" /\ bulk.custom_tags = << <<"t">> >>

(***************************************************************************)
(* Claims about the ingestion workflows                                    *)
(***************************************************************************)
Completed == pc = "idle" /\ op.kind # "none" /\ res.status # "none"

\* the extractor reported an error or yielded no usable content
ExtractionUnusable(e) ==
    /\ e.kind # "none"
    /\ \/ e.kind # "dict"
       \/ e.error # <<>>
       \/ e.content = NoneText
       \/ \A i \in 1 .. Len(e.content) : e.content[i] = " "

\* C6: when the extractor reports an error or yields empty or whitespace-only
\* content, store_content_from_url fails with ContentStorageException,
\* returns no record, and invokes neither the embedding service, nor the
\* categorization service, nor the vector store.
C6_NoContentNoProgress ==
    (op.kind = "url" /\ ExtractionUnusable(calls.extracted)) =>
        /\ pc \in {"idle", "extract"}
        /\ calls.embed = 0 /\ calls.categorize = 0 /\ calls.store = 0
        /\ (pc = "idle" =>
              /\ res.status = "raise"
              /\ res.exc = "ContentStorageException"
              /\ res.record = NoRecord)

C6_Witness ==
    /\ Completed /\ op.kind = "url"
    /\ calls.extracted.kind = "dict"
    /\ calls.extracted.error = <<>>
    /\ calls.extracted.content = <<" ">>
    /\ res.status = "raise" /\ res.exc = "ContentStorageException"

\* C7 (as stated): when custom_category is supplied the categorization
\* provider is not called during the call, and the returned record carries
\* custom_category and custom_tags (empty when not supplied).
C7_Original ==
    (op.kind # "none" /\ op.custom_category # None) =>
        /\ calls.categorize = 0
        /\ (res.status = "return" =>
              /\ res.record.category = op.custom_category
              /\ res.record.tags =
                    (IF op.custom_tags = NoneTags THEN <<>> ELSE op.custom_tags))

\* C8: whichever step fails, the only exception that leaves
\* store_content_from_url / store_content_from_text is ContentStorageException
\* and its message contains the message of the original failure.
C8_OnlyStorageException ==
    (Completed /\ res.status = "raise") =>
        /\ res.exc = "ContentStorageException"
        /\ Contains(res.msg, res.rawmsg)

C8_Witness ==
    /\ Completed /\ res.status = "raise"
    /\ res.step = "store" /\ res.raw = "TimeoutError"
    /\ res.exc = "ContentStorageException"

ConnectivityClass == { "ConnectionError", "TimeoutError" }

\* C9 (as stated): an ingestion call re-runs its workflow when, and only
\* when, an attempt fails with a ConnectionError / TimeoutError raised by one
\* of its steps, up to 3 attempts; any other failure ends the call after one
\* attempt.
C9_Original ==
    (Completed /\ res.status = "raise") =>
        IF res.raw \in ConnectivityClass
        THEN attempt = StopAfterAttempt
        ELSE attempt = 1

\* C10 (as stated): every ContentRecord the Content Manager constructs has
\* source_url present iff content_type = 'url': url records carry the
\* requested URL, text records carry None, and records rebuilt by
\* retrieve_content_by_category keep the stored record's content_type and
\* source_url.
C10_Original ==
    /\ (Completed /\ res.status = "return") =>
          /\ res.record.content_type = op.kind
          /\ res.record.source_url = (IF op.kind = "url" THEN op.url ELSE None)
          /\ (res.record.source_url # None <=> res.record.content_type = "url")
    /\ \A i \in 1 .. Len(retr.constructed) :
          /\ retr.constructed[i].content_type = retr.matched[i].origin.content_type
          /\ retr.constructed[i].source_url = retr.matched[i].origin.source_url
          /\ (retr.constructed[i].source_url # None
                <=> retr.constructed[i].content_type = "url")

\* C11 (as stated): the record returned by store_content_from_text carries the
\* title supplied by the caller, and 'Text Content' when none is supplied.
C11_Original ==
    (Completed /\ op.kind = "text" /\ res.status = "return") =>
        res.record.title = (IF op.title # None THEN op.title ELSE "Text Content")

C13_Original ==
    \A i \in 1 .. Len(retr.constructed) :
        /\ retr.constructed[i].title = retr.matched[i].origin.title
        /\ retr.constructed[i].category = retr.matched[i].origin.category
        /\ retr.constructed[i].tags_type = "list"
        /\ retr.constructed[i].tags = retr.matched[i].origin.tags

(***************************************************************************)
(* Claims about record creation                                            *)
(***************************************************************************)
\* what C14 says of one store_content_from_url call, given the category the
\* returned record is expected to carry
OneInsertPerSuccess(expected_category) ==
    op.kind = "url" =>
        \* nothing is inserted before the last step
        /\ (pc # "idle" => Len(db) = calls.db0 /\ calls.store = 0)
        \* a successful call inserted exactly the record it returns
        /\ (Completed /\ res.status = "return") =>
              /\ ~ExtractionUnusable(calls.extracted)
              /\ calls.store = 1
              /\ Len(db) = calls.db0 + 1
              /\ db[Len(db)].origin = res.record
              /\ db[Len(db)].metadata.title = res.record.title
              /\ res.record.title = Get(calls.extracted.title, "No Title")
              /\ res.record.category = expected_category
        \* a failed call inserted nothing
        /\ (Completed /\ res.status = "raise") => Len(db) = calls.db0

C14_WitnessFailed ==
    /\ Completed /\ op.kind = "url" /\ res.status = "raise"
    /\ res.step = "store" /\ calls.db0 = 1 /\ Len(db) = 1

(***************************************************************************)
(* Claims about date-range retrieval and similarity search                 *)
(***************************************************************************)
InDb(entry) == \E j \in 1 .. Len(db) : db[j] = entry

\* C15 (as stated): retrieve_content_by_date_range(start, end, category)
\* returns, from a store that answers, only stored records whose timestamp t
\* satisfies start <= t <= end and, when category is given, only records of
\* that category.
C15_Original ==
    qry.kind = "date_range" =>
        /\ (qry.store.kind = "ok" => qry.status = "return")
        /\ (qry.status = "return" =>
              \A i \in 1 .. Len(qry.value) :
                 /\ InDb(qry.value[i])
                 /\ qry.start_date <= qry.value[i].metadata.timestamp
                 /\ qry.value[i].metadata.timestamp <= qry.end_date
                 /\ (qry.category # None =>
                        qry.value[i].metadata.category = qry.category))

\* C16 (as stated): similarity_search returns the store's results unchanged,
\* in the store's order, limited to top_k and restricted to category_filter
\* when one is given; any failure surfaces as ContentRetrievalException.
C16_Original ==
    qry.kind = "similarity" =>
        /\ (qry.store.kind = "ok" =>
              /\ qry.status = "return"
              /\ Len(qry.value) <= qry.top_k
              /\ \A i \in 1 .. Len(qry.value) :
                    /\ InDb(qry.value[i])
                    /\ (qry.category_filter # None =>
                           qry.value[i].metadata.category = qry.category_filter))
        /\ (qry.status = "raise" => qry.exc = "ContentRetrievalException")

(***************************************************************************)
(* Claims about quiz generation                                            *)
(***************************************************************************)
\* the stored entries of the category of the quiz request
StoredInCategory == SelectSeq(db, LAMBDA e : e.metadata.category = qry.category)

HasSummary == \E i \in 1 .. Len(StoredInCategory) :
                 StoredInCategory[i].metadata.summary # ""

\* C17 (as stated): for a category with no stored records, or with records
\* none of which has a non-empty summary, generate_quiz_from_category raises
\* QuizGenerationException whose message contains 'No content found', and no
\* generator is invoked.
C17_Original ==
    (qry.kind = "quiz" /\ qry.store.kind = "ok" /\ ~HasSummary) =>
        /\ qry.status = "raise"
        /\ qry.exc = "QuizGenerationException"
        /\ Contains(qry.msg, <<"No content found">>)
        /\ qry.invoked = <<>>

\* C18 (as stated): for a category with at least one non-empty summary,
\* generate_quiz_from_category invokes exactly one generator, the one matching
\* quiz_type, exactly once with (summaries, category, num_questions,
\* difficulty) and returns its quiz; any other quiz_type raises
\* QuizGenerationException 'Unsupported quiz type' with no generator invoked.
C18_Original ==
    (qry.kind = "quiz" /\ qry.store.kind = "ok" /\ HasSummary) =>
        IF qry.quiz_type \in { "mcq", "fill_in_blank", "true_false" }
        THEN /\ Len(qry.invoked) = 1
             /\ qry.invoked[1].generator =
                   (CASE qry.quiz_type = "mcq" -> "generate_mcq_quiz"
                      [] qry.quiz_type = "fill_in_blank" -> "generate_fill_in_blank_quiz"
                      [] qry.quiz_type = "true_false" -> "generate_true_false_quiz")
             /\ qry.invoked[1].category = qry.category
             /\ qry.invoked[1].num_questions = qry.num_questions
             /\ qry.invoked[1].difficulty = qry.difficulty
        ELSE /\ qry.status = "raise"
             /\ qry.exc = "QuizGenerationException"
             /\ Contains(qry.msg, <<"Unsupported quiz type">>)
             /\ qry.invoked = <<>>

\* the shape a question must have for its generator
ShapeOk(generator, q) ==
    /\ CASE generator = "generate_mcq_quiz" -> Len(q.choice) = 4
         [] generator = "generate_true_false_quiz" -> Len(q.choice) = 2
         [] generator = "generate_fill_in_blank_quiz" -> Len(q.choice) >= 2
    /\ \E i \in 1 .. Len(q.explanation) : q.explanation[i] # " "

\* C19: a quiz returned by generate_mcq_quiz has exactly 4 choices in every
\* question, one returned by generate_true_false_quiz exactly 2, one returned
\* by generate_fill_in_blank_quiz at least 2, and every question of a returned
\* quiz has a non-blank explanation; a provider response violating this makes
\* the generator raise instead of returning the quiz.
C19_QuizShape ==
    qry.kind = "generator" =>
        /\ (qry.result.status = "return" =>
              /\ qry.result.quiz = qry.response.quiz
              /\ \A i \in 1 .. Len(qry.result.quiz.questions) :
                    ShapeOk(qry.generator, qry.result.quiz.questions[i]))
        /\ (/\ qry.result.provider_calls = 1 /\ qry.response.kind = "ok"
            /\ \E i \in 1 .. Len(qry.response.quiz.questions) :
                  ~ShapeOk(qry.generator, qry.response.quiz.questions[i]))
           => (/\ qry.result.status = "raise"
               /\ qry.result.exc = "RuntimeError"
               /\ qry.result.quiz = NoQuiz)

C19_Witness ==
    /\ qry.kind = "generator" /\ qry.generator = "generate_mcq_quiz"
    /\ qry.result.status = "return"
    /\ Len(qry.result.quiz.questions) = 2
    /\ Len(qry.result.quiz.questions[2].choice) = 4

C19_WitnessRejected ==
    /\ qry.kind = "generator" /\ qry.generator = "generate_true_false_quiz"
    /\ qry.response.kind = "ok"
    /\ Len(qry.response.quiz.questions) = 2
    /\ Len(qry.response.quiz.questions[1].choice) = 2
    /\ qry.response.quiz.questions[1].explanation = <<"e">>
    /\ qry.response.quiz.questions[2].explanation = <<" ">>
    /\ qry.result.status = "raise" /\ qry.result.provider_calls = 1

(***************************************************************************)
(* Claims about the query_content tool                                     *)
(***************************************************************************)
Supplied(x) == x # None /\ x # ""

HasDateRange == Supplied(qry.request.start_date) /\ Supplied(qry.request.end_date)

HasCategory == Supplied(qry.request.category)

C20_WitnessBoth ==
    /\ qry.kind = "query_content"
    /\ HasDateRange /\ HasCategory
    /\ qry.status = "return" /\ Len(qry.value) = 2
    /\ qry.value[1].metadata.category # qry.request.category

(***************************************************************************)
(* tools/store_content.py                                                  *)
(***************************************************************************)
\* store_content_schema: the declared properties and the content_type enum
SchemaProperties ==
    { "content_type", "source_url", "text", "custom_category", "custom_tags" }
ContentTypeEnum == { "url", "text" }

\* the key is held by the content_data dictionary
Has(d, k) ==
    CASE k = "text" -> d.text # <<Missing>>
      [] k = "custom_tags" -> d.custom_tags # MissingTags
      [] OTHER -> d[k] # Missing

\* the keywords of store_content_schema that content_data violates
SchemaErrors(d) ==
    { e \in { "required", "enum", "additionalProperties", "then source_url",
              "then text" } :
        CASE e = "required" -> ~Has(d, "content_type")
          [] e = "enum" -> Has(d, "content_type") /\ d.content_type \notin ContentTypeEnum
          [] e = "additionalProperties" ->
                \E k \in DOMAIN d : Has(d, k) /\ k \notin SchemaProperties
          [] e = "then source_url" ->
                /\ (Has(d, "content_type") => d.content_type = "url")
                /\ ~Has(d, "source_url")
          [] e = "then text" ->
                /\ (Has(d, "content_type") => d.content_type \in { "text", "code" })
                /\ ~Has(d, "text") }

\* validate_with_schema: ValidationError becomes ValueError
ValidateWithSchema(d) ==
    IF SchemaErrors(d) = {} THEN [kind |-> "ok", exc |-> None, msg |-> <<>>]
    ELSE Raise("ValueError", <<"Input validation error: ">>)

\* _mcp_text around an error text, and around the results dictionary
NoToolResult ==
    [content_id |-> Str(NoId), title |-> None, summary |-> None,
     category |-> None, tags |-> <<>>]
McpText(text) == [is_result |-> FALSE, text |-> text, results |-> NoToolResult]
McpResults(record) ==
    [is_result |-> TRUE, text |-> <<>>,
     results |-> [content_id |-> Str(record.content_id), title |-> record.title,
                  summary |-> record.summary, category |-> record.category,
                  tags |-> record.tags]]

\* custom_tags = content_data.get("custom_tags", []), with 'code' appended
\* for an item of type code
ToolTags(d) ==
    LET custom_tags == IF Has(d, "custom_tags") THEN d.custom_tags ELSE <<>> IN
    IF d.content_type = "code" /\ ~(\E i \in 1 .. Len(custom_tags) :
                                        custom_tags[i] = <<"code">>)
    THEN Append(custom_tags, <<"code">>)
    ELSE custom_tags

ToolCall(d, api_key, status, stage, output) ==
    [kind |-> "store_content", status |-> status, content_data |-> d,
     api_key |-> api_key, stage |-> stage, output |-> output]

\* store_content up to the call of the manager: validation, the API key, the
\* branch on content_type
StoreContent(content_data, api_key) ==
    /\ CanQuery
    /\ Len(db) < MaxStore
    /\ LET v == ValidateWithSchema(content_data) IN
       IF v.kind = "raise"
       THEN /\ qry' = ToolCall(content_data, api_key, "done", "validation",
                               McpText(v.msg))
            /\ UNCHANGED <<pc, op, attempt, loc, calls, res, db, bulk, retr>>
       ELSE IF api_key = None
       THEN /\ qry' = ToolCall(content_data, api_key, "done", "api_key",
                     McpText(<<"OPENAI_API_KEY environment variable is not set.">>))
            /\ UNCHANGED <<pc, op, attempt, loc, calls, res, db, bulk, retr>>
       ELSE /\ qry' = ToolCall(content_data, api_key, "running", "workflow",
                               McpText(<<>>))
            /\ IF content_data.content_type = "url"
               THEN StoreContentFromUrl(content_data.source_url,
                                        Get(content_data.custom_category, None),
                                        ToolTags(content_data))
               ELSE StoreContentFromText(content_data.text,
                                         Get(content_data.title, None),
                                         Get(content_data.custom_category, None),
                                         ToolTags(content_data))

\* store_content after the manager's call: the results dictionary, or the text
\* of the except clause that caught the exception
StoreContentReturn ==
    /\ qry.kind = "store_content" /\ qry.status = "running"
    /\ pc = "idle" /\ res.status # "none"
    /\ qry' = [qry EXCEPT
                 !.status = "done",
                 !.output =
                    IF res.status = "return" THEN McpResults(res.record)
                    ELSE IF res.exc = "ValueError" THEN McpText(res.msg)
                    ELSE IF res.exc = "ContentStorageException"
                    THEN McpText(<<"Content storage failed: ">> \o res.msg)
                    ELSE McpText(<<"Unexpected error while storing content.">>)]
    /\ UNCHANGED <<pc, op, attempt, loc, calls, res, db, bulk, retr>>

ToolContentTypes == { Missing, "url", "text", "code" }
ContentDatas ==
    [content_type : ToolContentTypes,
     source_url : { Missing, "u1" },
     text : { <<Missing>>, <<" ", "x">> },
     title : { Missing, "My Notes" },
     custom_category : { Missing, "Science" },
     custom_tags : { MissingTags, << <<"code">> >>, << <<"t">> >> }]
ApiKeys == { None, "sk" }

StoreContentCall ==
    /\ CanQuery
    /\ \E d \in ContentDatas, k \in ApiKeys : StoreContent(d, k)
    /\ UNCHANGED catvars

StoreContentDone == StoreContentReturn /\ UNCHANGED catvars

NextTool ==
    StoreContentCall \/ BulkExtract \/ ExtractText \/ BulkEmbed
        \/ BulkCategorize \/ BulkStore \/ StoreContentDone

SpecTool == InitMgr /\ [][NextTool]_vars

(***************************************************************************)
(* Claims about the store_content tool                                     *)
(***************************************************************************)
\* content_data as the interface describes it: a type of url, text or code,
\* with source_url for a url and text otherwise, and no undeclared key
WellFormed(d) ==
    /\ d.content_type \in { "url", "text", "code" }
    /\ IF d.content_type = "url" THEN Has(d, "source_url") ELSE Has(d, "text")
    /\ ~Has(d, "title")

\* C21 (as stated): store_content accepts content_data of type url, text or
\* code, requires source_url for a url and text otherwise, and stores an item
\* of type code through the text workflow with the tag 'code' among its tags.
C21_Original ==
    qry.kind = "store_content" =>
        /\ (WellFormed(qry.content_data) <=> qry.stage # "validation")
        /\ (/\ qry.content_data.content_type = "code"
            /\ qry.status = "done"
            /\ qry.stage = "workflow"
            /\ res.status = "return")
           => /\ op.kind = "text"
              /\ \E i \in 1 .. Len(qry.output.results.tags) :
                    qry.output.results.tags[i] = <<"code">>

\* the part of C21 that the schema does implement: a url item needs
\* source_url, a text item needs text
C21_RequiredKeys ==
    (qry.kind = "store_content" /\ qry.stage # "validation") =>
        /\ qry.content_data.content_type \in { "url", "text" }
        /\ IF qry.content_data.content_type = "url"
           THEN Has(qry.content_data, "source_url")
           ELSE Has(qry.content_data, "text")

\* an entry of the vector store is held under the identifier
HeldUnder(id) == \E i \in 1 .. Len(db) : db[i].id = id

\* C22 (as stated): the content_id reported for a stored item, in the
\* store_content result and in each success entry of store_bulk_urls, is the
\* identifier under which the item is held in the vector store.
C22_Original ==
    /\ (qry.kind = "store_content" /\ qry.status = "done" /\ qry.output.is_result)
          => HeldUnder(qry.output.results.content_id)
    /\ \A j \in 1 .. Len(bulk.results.success) :
          HeldUnder(bulk.results.success[j].content_id)

(***************************************************************************)
(* tools/generate_quiz.py                                                  *)
(***************************************************************************)
\* the quiz_type values the signature declares, and the ones the body allows
DeclaredTypes == { <<"multiple_choice">>, <<"fill_in_the_blank">>, <<"true_or_false">> }
AllowedTypes == { <<"multiple_choice">>, <<"true_false">>, <<"fill_in_the_blank">> }

\* str.lower over the fragments of a text
LowerFragment(f) ==
    CASE f = "True_False" -> "true_false"
      [] f = "MULTIPLE_CHOICE" -> "multiple_choice"
      [] OTHER -> f
Lower(text) == [i \in 1 .. Len(text) |-> LowerFragment(text[i])]

\* quiz_type.lower().strip() if isinstance(quiz_type, str) else ""
QuizTypeLower(quiz_type) ==
    IF quiz_type = NoneText THEN <<>> ELSE Strip(Lower(quiz_type))

\* the if / elif chain that selects the generator
Dispatch(quiz_type_lower) ==
    CASE quiz_type_lower = <<"multiple_choice">> -> "generate_mcq_quiz"
      [] quiz_type_lower = <<"true_false">> -> "generate_true_false_quiz"
      [] quiz_type_lower = <<"fill_in_the_blank">> -> "generate_fill_in_blank_quiz"
      [] OTHER -> None

QuizToolCall(quiz_type, content_summaries, category, num_questions, difficulty, api_key, stage, generator, result) ==
    [kind |-> "generate_quiz", status |-> "done", quiz_type |-> quiz_type,
     content_summaries |-> content_summaries, category |-> category,
     num_questions |-> num_questions, difficulty |-> difficulty,
     api_key |-> api_key, stage |-> stage,
     service_created |-> stage = "generate", generator |-> generator,
     result |-> result]

\* generate_quiz: the outcome of the call and the stage that decided it
GenerateQuizTool(quiz_type, content_summaries, category, num_questions, difficulty, api_key, response) ==
    LET quiz_type_lower == QuizTypeLower(quiz_type)
        Rejected(stage, msg) ==
            QuizToolCall(quiz_type, content_summaries, category, num_questions,
                         difficulty, api_key, stage, None,
                         GeneratorResult("raise", "ValueError", msg, NoQuiz, 0))
    IN
    IF quiz_type_lower = <<>> \/ quiz_type_lower \notin AllowedTypes
    THEN Rejected("quiz_type", <<"Type must be one of the following strings: ",
                                 "multiple choice, fill in the blank, true or false.">>)
    ELSE IF category = ""
    THEN Rejected("category", <<"Category must be a non-empty string.">>)
    ELSE IF num_questions <= 0
    THEN Rejected("num_questions", <<"Number of questions must be a positive integer.">>)
    ELSE IF difficulty \notin Difficulties
    THEN Rejected("difficulty", <<"Difficulty must be one of: easy, medium, hard, mixed.">>)
    ELSE IF api_key = None
    THEN Rejected("api_key", <<"OPENAI_API_KEY environment variable is not set.">>)
    ELSE LET generator == Dispatch(quiz_type_lower)
             r == IF generator = None
                  THEN GeneratorResult("raise", "ValueError",
                                       <<"Unsupported quiz type: ">> \o quiz_type_lower,
                                       NoQuiz, 0)
                  ELSE GenerateQuiz(generator, content_summaries, category,
                                    num_questions, difficulty, response)
         IN
         QuizToolCall(quiz_type, content_summaries, category, num_questions,
                      difficulty, api_key, "generate", generator,
                      IF r.status = "raise"
                      THEN GeneratorResult("raise", "RuntimeError",
                                           <<"Quiz generation failed: ">> \o r.msg,
                                           NoQuiz, r.provider_calls)
                      ELSE r)

QuizTypeInputs ==
    DeclaredTypes \cup
        { <<"true_false">>, <<" ", "True_False">>, <<"MULTIPLE_CHOICE">>,
          <<"essay">>, NoneText }
ToolCategories == { "Technology", "" }

GenerateQuizToolCall ==
    /\ CanQuery
    /\ \E qt \in QuizTypeInputs, cs \in SummaryLists, c \in ToolCategories,
          n \in QuestionCounts, d \in DifficultyInputs, k \in ApiKeys,
          r \in WorkflowResponses :
          qry' = GenerateQuizTool(qt, cs, c, n, d, k, r)
    /\ UNCHANGED <<pc, op, attempt, loc, calls, res, db, bulk, retr>>
    /\ UNCHANGED catvars

\* the tool and the generators it dispatches to
NextQuizTool ==
    GenerateQuizToolCall \/ GenerateMcqQuiz \/ GenerateFillInBlankQuiz
        \/ GenerateTrueFalseQuiz

SpecQuizTool == InitMgr /\ [][NextQuizTool]_vars

(***************************************************************************)
(* Claims about the generate_quiz tool                                     *)
(***************************************************************************)
\* the generator the interface's quiz_type names
MatchingGenerator(quiz_type) ==
    CASE quiz_type = <<"multiple_choice">> -> "generate_mcq_quiz"
      [] quiz_type = <<"fill_in_the_blank">> -> "generate_fill_in_blank_quiz"
      [] quiz_type = <<"true_or_false">> -> "generate_true_false_quiz"
      [] OTHER -> None

\* the other arguments and the environment are valid
OtherArgsValid ==
    /\ qry.category # ""
    /\ qry.num_questions > 0
    /\ qry.difficulty \in Difficulties
    /\ qry.api_key # None

\* C23 (as stated): generate_quiz accepts every declared quiz_type
\* (multiple_choice, fill_in_the_blank, true_or_false) and dispatches it to the
\* matching generator; any other value is rejected with ValueError before a
\* QuizService is created or a provider is called.
C23_Original ==
    qry.kind = "generate_quiz" =>
        /\ (qry.quiz_type \in DeclaredTypes /\ OtherArgsValid)
              => /\ qry.service_created
                 /\ qry.generator = MatchingGenerator(qry.quiz_type)
        /\ qry.quiz_type \notin DeclaredTypes
              => /\ qry.result.status = "raise"
                 /\ qry.result.exc = "ValueError"
                 /\ ~qry.service_created
                 /\ qry.result.provider_calls = 0

\* the declared values the body does accept are dispatched to their generator,
\* and a rejected quiz_type creates no service and calls no provider
C23_AllowedDispatch ==
    qry.kind = "generate_quiz" =>
        /\ (qry.quiz_type \in { <<"multiple_choice">>, <<"fill_in_the_blank">> }
            /\ OtherArgsValid)
              => /\ qry.service_created
                 /\ qry.generator = MatchingGenerator(qry.quiz_type)
        /\ qry.stage = "quiz_type"
              => /\ qry.result.exc = "ValueError"
                 /\ ~qry.service_created
                 /\ qry.result.provider_calls = 0

(***************************************************************************)
(* VectorDatabase.get_all_categories / get_all_tags                        *)
(***************************************************************************)
MaxScan == 4
MaxBatch == 3

\* the code point of the first character of a fragment
Ord(f) ==
    CASE f = " " -> 32
      [] f = "," -> 44
      [] f = "Science" -> 83
      [] f = "Technology" -> 84
      [] f = "a" -> 97
      [] f = "b" -> 98
      [] OTHER -> 120

\* str < str, on texts
RECURSIVE LessText(_, _)
LessText(s, t) ==
    IF t = <<>> THEN FALSE
    ELSE IF s = <<>> THEN TRUE
    ELSE IF Ord(Head(s)) # Ord(Head(t)) THEN Ord(Head(s)) < Ord(Head(t))
    ELSE LessText(Tail(s), Tail(t))

\* the order sorted() uses: categories are whole strings, tags are texts
Less(what, x, y) ==
    IF what = "categories" THEN Ord(x) < Ord(y) ELSE LessText(x, y)

\* sorted(values): the i-th element is the value with i - 1 values below it
SortedSet(what, S) ==
    [i \in 1 .. Cardinality(S) |->
        CHOOSE x \in S : Cardinality({ y \in S : Less(what, y, x) }) = i - 1]
Sorted(what, values) == CHOOSE q \in { SortedSet(what, S) : S \in { values } } : TRUE

\* tag_str.split(','): the pieces between consecutive separators, the start
\* and the end of the text
Cuts(text) == { 0, Len(text) + 1 } \cup { i \in 1 .. Len(text) : text[i] = "," }
Cut(C, k) == CHOOSE c \in C : Cardinality({ d \in C : d < c }) = k
SplitAt(text, C) ==
    [k \in 1 .. Cardinality(C) - 1 |-> SubSeq(text, Cut(C, k - 1) + 1, Cut(C, k) - 1)]
Split(text) ==
    CHOOSE parts \in { SplitAt(t, Cuts(t)) : t \in { text } } : TRUE

\* {t.strip() for t in tag_str.split(',') if t.strip()}
TagTokens(tag_str) ==
    { t \in { Strip(part) : part \in { Split(tag_str)[i] :
                                          i \in 1 .. Len(Split(tag_str)) } } :
        t # <<>> }

\* what one record adds to the set: the body of the for loop
Collected(what, meta) ==
    IF what = "categories"
    THEN (IF MetaGet(meta, "category", "") # "" THEN { MetaGet(meta, "category", "") }
          ELSE {})
    ELSE (IF MetaGet(meta, "tags", <<>>) # <<>> THEN TagTokens(MetaGet(meta, "tags", <<>>))
          ELSE {})

\* mutant: a full page is taken for the last one
LastPage_Inclusive(ids, batch_size) == Len(ids) <= batch_size

\* if len(ids) < batch_size: break
LastPage(ids, batch_size) == Len(ids) < batch_size

\* mutant: the offset skips one record at every page boundary
NextOffset_SkipOne(offset, batch_size) == offset + batch_size + 1

\* offset += batch_size
NextOffset(offset, batch_size) == offset + batch_size

\* get_all_categories / get_all_tags is called: the set is empty, offset = 0
ScanBegin(what, batch_size) ==
    /\ QueryOnly
    /\ qry' = [kind |-> "scan", status |-> "running", what |-> what,
               batch_size |-> batch_size, offset |-> 0, found |-> {},
               fetches |-> <<>>, scanned |-> <<>>, exc |-> None, result |-> <<>>]

\* one iteration of the while loop on the scan state q: a page is fetched and
\* scanned, and the loop ends or the offset advances; o is what the
\* collection does
ScanIteration(q, entries, o) ==
    LET batch == CollectionGet(entries, IntArg(q.batch_size), q.offset, o)
        n == Len(batch.entries)
        found == q.found \cup
                    UNION { Collected(q.what, batch.entries[i].metadata) :
                               i \in 1 .. n }
        fetched == [q EXCEPT !.fetches = Append(@, q.offset)]
        scanned == [fetched EXCEPT
                      !.found = found,
                      !.scanned = @ \o [i \in 1 .. n |-> q.offset + i]]
    IN
    IF batch.kind = "raise"
    THEN [fetched EXCEPT !.status = "done", !.exc = "VectorDatabaseError"]
    ELSE IF n = 0
    THEN [fetched EXCEPT !.status = "done", !.result = Sorted(q.what, q.found)]
    ELSE IF LastPage([i \in 1 .. n |-> batch.entries[i].id], q.batch_size)
    THEN [scanned EXCEPT !.status = "done", !.result = Sorted(q.what, found)]
    ELSE [scanned EXCEPT !.offset = NextOffset(q.offset, q.batch_size)]

ScanPage(o) ==
    /\ qry.kind = "scan" /\ qry.status = "running"
    /\ qry' = ScanIteration(qry, db, o)
    /\ UNCHANGED <<pc, op, attempt, loc, calls, res, db, bulk, retr>>

\* the records the collection is filled with: categories and tag lists
ScanItems ==
    { [category |-> "Science", tags |-> << <<"a">>, <<" ", "b">> >>],
      [category |-> "Technology", tags |-> << <<"a", "b">>, <<" ">>, <<"a">> >>],
      [category |-> "", tags |-> <<>>],
      [category |-> "Science", tags |-> << <<"b", ",", "a">> >>] }
BatchSizes == 1 .. MaxBatch
ScanOutcomes ==
    { [kind |-> "ok", msg |-> <<>>, strict |-> TRUE, order |-> "oldest"] }
ScanFailures ==
    { [kind |-> "raise", msg |-> <<"io error">>, strict |-> TRUE, order |-> "oldest"] }

\* VectorDatabase.store is called directly
VdbStoreDirect ==
    /\ CanQuery
    /\ Len(db) < MaxScan
    /\ \E item \in ScanItems :
          db' = Append(db, VdbStore([original_content |-> <<"x">>, title |-> "T",
                                     source_url |-> None, tags |-> item.tags,
                                     summary |-> "S"],
                                    item.category, Str(<<"doc", Len(db) + 1>>),
                                    Now(db)))
    /\ UNCHANGED <<pc, op, attempt, loc, calls, res, bulk, retr, qry>>
    /\ UNCHANGED catvars

GetAllCategories ==
    /\ CanQuery
    /\ \E b \in BatchSizes : ScanBegin("categories", b)
    /\ UNCHANGED catvars

GetAllTags ==
    /\ CanQuery
    /\ \E b \in BatchSizes : ScanBegin("tags", b)
    /\ UNCHANGED catvars

FetchPage == (\E o \in ScanOutcomes : ScanPage(o)) /\ UNCHANGED catvars
FetchFails == (\E o \in ScanFailures : ScanPage(o)) /\ UNCHANGED catvars

NextScan == VdbStoreDirect \/ GetAllCategories \/ GetAllTags \/ FetchPage \/ FetchFails

SpecScan == InitMgr /\ [][NextScan]_vars

\* the loop runs in the caller's thread: an iteration that can be taken is taken
SpecScanFair == InitMgr /\ [][NextScan]_vars /\ WF_vars(FetchPage)

(***************************************************************************)
(* Claims about get_all_categories / get_all_tags                         *)
(***************************************************************************)
\* the values the claim names, read off the whole collection
AllCategories ==
    { db[i].metadata.category : i \in { j \in 1 .. Len(db) : db[j].metadata.category # "" } }
AllTags == UNION { TagTokens(db[i].metadata.tags) : i \in 1 .. Len(db) }

ScanReturned == qry.kind = "scan" /\ qry.status = "done" /\ qry.exc = None

\* the sequence has no repetition and ascends
Ascending(what, q) ==
    \A i \in 1 .. Len(q) - 1 : Less(what, q[i], q[i + 1])

\* C24: for every collection and every batch_size >= 1 the scan returns
\* exactly the sorted set of distinct non-empty categories (get_all_categories)
\* or of distinct non-empty trimmed tokens of the stored tag strings
\* (get_all_tags), and every record is scanned exactly once, in order.
C24_ExactSortedSet ==
    ScanReturned =>
        /\ { qry.result[i] : i \in 1 .. Len(qry.result) }
              = (IF qry.what = "categories" THEN AllCategories ELSE AllTags)
        /\ Ascending(qry.what, qry.result)
        /\ qry.scanned = [i \in 1 .. Len(db) |-> i]

\* a scan over several pages whose last page is full, with blank and repeated
\* values in the collection
C24_Witness ==
    /\ ScanReturned
    /\ qry.what = "tags"
    /\ qry.batch_size = 2
    /\ Len(db) = 4
    /\ Len(qry.result) = 3
    /\ \E i \in 1 .. Len(db) : db[i].metadata.tags = <<>>

C24_WitnessCategories ==
    /\ ScanReturned
    /\ qry.what = "categories"
    /\ qry.batch_size = 2
    /\ Len(db) = 3
    /\ Len(qry.result) = 2
    /\ \E i \in 1 .. Len(db) : db[i].metadata.category = ""

ScanRunning == qry.kind = "scan" /\ qry.status = "running"
ScanDone == qry.kind = "scan" /\ qry.status = "done"

\* the offsets of the page fetches made so far ascend from 0 by batch_size,
\* and a scan that returns has made floor(N/B) + 1 of them
FetchPlan ==
    qry.kind = "scan" =>
        /\ \A i \in 1 .. Len(qry.fetches) : qry.fetches[i] = (i - 1) * qry.batch_size
        /\ Len(qry.fetches) <= (Len(db) \div qry.batch_size) + 1
        /\ ScanReturned => Len(qry.fetches) = (Len(db) \div qry.batch_size) + 1

\* C25: the pagination loop terminates for every collection of N records and
\* every batch_size B >= 1 (N = 0 and N a multiple of B included); it makes
\* floor(N/B) + 1 page fetches, at offsets that grow by B.
C25_Terminates == [] FetchPlan /\ (ScanRunning ~> ScanDone)

\* N is a positive multiple of B: the scan returned after the extra, empty page
C25_Witness ==
    /\ ScanReturned
    /\ Len(db) = 4
    /\ qry.batch_size = 2
    /\ qry.fetches = <<0, 2, 4>>

\* N = 0: one fetch
C25_WitnessEmpty ==
    /\ ScanReturned
    /\ Len(db) = 0
    /\ qry.fetches = <<0>>

(***************************************************************************)
(* Argument validation of the quiz generators and of categorize_content    *)
(***************************************************************************)
\* a blank content whose cache key is the key of a non-blank one
ValidationInputs ==
    { [title |-> <<>>, content |-> <<"a", " ">>],
      [title |-> <<"a">>, content |-> <<" ">>] }

ValidateCategorize ==
    /\ \E i \in ValidationInputs : CatCall(i.title, i.content, 1)
    /\ UNCHANGED <<mgrvars, thr>>

ValidateGenerator(generator) ==
    /\ CanQuery
    /\ \E cs \in SummaryLists, n \in QuestionCounts, d \in DifficultyInputs,
          r \in WorkflowResponses : CallGenerator(generator, cs, "Technology", n, d, r)

ValidateMcq == ValidateGenerator("generate_mcq_quiz") /\ UNCHANGED catvars
ValidateFillInBlank ==
    ValidateGenerator("generate_fill_in_blank_quiz") /\ UNCHANGED catvars
ValidateTrueFalse == ValidateGenerator("generate_true_false_quiz") /\ UNCHANGED catvars

NextValidate ==
    ValidateCategorize \/ CategorizeAttempt
        \/ ValidateMcq \/ ValidateFillInBlank \/ ValidateTrueFalse

SpecValidate == Init /\ [][NextValidate]_vars

(***************************************************************************)
(* Claims about argument validation                                        *)
(***************************************************************************)
\* the arguments the claim names as invalid
BadQuizArgs ==
    \/ qry.content_summaries = <<>>
    \/ \A i \in 1 .. Len(qry.content_summaries) :
          \A j \in 1 .. Len(qry.content_summaries[i]) :
             qry.content_summaries[i][j] = " "
    \/ qry.num_questions <= 0
    \/ qry.difficulty \notin { "easy", "medium", "hard", "mixed" }

\* C26: each quiz generator raises ValueError without invoking the provider
\* when content_summaries is empty or all blank, num_questions <= 0 or
\* difficulty is not easy, medium, hard or mixed; categorize_content raises
\* ValueError on blank content without a provider call and without reading or
\* writing the cache.
C26_ValidationFirst ==
    /\ (qry.kind = "generator" /\ BadQuizArgs)
          => /\ qry.result.status = "raise"
             /\ qry.result.exc = "ValueError"
             /\ qry.result.provider_calls = 0
    /\ (catLast.status # "none"
        /\ \A j \in 1 .. Len(catLast.content) : catLast.content[j] = " ")
          => /\ catLast.status = "raise"
             /\ catLast.exc = "ValueError"
             /\ catLast.invocations = 0
             /\ ~catLast.fromCache

\* a generator rejected a bad difficulty although the provider would have
\* answered, and a blank content was rejected although the cache holds a
\* value under its key
C26_Witness ==
    /\ qry.kind = "generator"
    /\ qry.content_summaries = << <<"S">>, <<>> >>
    /\ qry.num_questions = 5
    /\ qry.difficulty = "extreme"
    /\ qry.response.kind = "ok"
    /\ qry.result.exc = "ValueError"
    /\ catLast.status = "raise"
    /\ catLast.content = <<" ">>
    /\ cache[GenerateCacheKey(catLast.title, catLast.content)] # NoEntry

(***************************************************************************)
(* Claims about the categorization cache across calls                      *)
(***************************************************************************)
\* what a step does to a key that already has a value: the value stays, a call
\* made with that key (of non-blank content) does not go to the provider and
\* returns the value
KeyKept(k) ==
    cache[k] # NoEntry =>
        /\ cache'[k] = cache[k]
        /\ (catpc = "idle" /\ catpc' = "loop")
              => GenerateCacheKey(catcall'.title, catcall'.content) # k
        /\ (/\ catpc = "idle"
            /\ catLast' # catLast
            /\ GenerateCacheKey(catLast'.title, catLast'.content) = k
            /\ Strip(catLast'.content) # <<>>)
              => /\ catLast'.status = "return"
                 /\ catLast'.value = cache[k]
                 /\ catLast'.invocations = 0

\* C27: across any sequence of categorize_content calls the cache is
\* append-only: a key that has a value keeps that value and is never removed,
\* and every later call with that key returns the value without invoking the
\* provider.
C27_AppendOnly == [][\A k \in CacheKeys : KeyKept(k)]_vars

\* a later call with max_retries = 0 was answered from the cache while a
\* second key is held as well
C27_Witness ==
    /\ catLast.status = "return"
    /\ catLast.fromCache
    /\ catLast.max_retries = 0
    /\ catLast.value = cache[GenerateCacheKey(catLast.title, catLast.content)]
    /\ cache[<<"a", "b", "c">>] # NoEntry
    /\ cache[<<"a", "c">>] # NoEntry

(***************************************************************************)
(* categorize_content called from two threads of one service               *)
(***************************************************************************)
\* a thread enters categorize_content: validation and the cache check
RaceEnter(t, title, content) ==
    LET key == GenerateCacheKey(title, content)
        call == [NoThread EXCEPT !.title = title, !.content = content]
    IN
    /\ thr[t].pc # "miss"
    /\ thr' = [thr EXCEPT ![t] =
                 IF Strip(content) = <<>>
                 THEN [call EXCEPT !.pc = "done", !.status = "raise",
                                   !.exc = "ValueError"]
                 ELSE IF cache_enabled /\ cache[key] # NoEntry
                 THEN [call EXCEPT !.pc = "done", !.status = "return",
                                   !.value = cache[key]]
                 ELSE [call EXCEPT !.pc = "miss", !.attempt = 1]]
    /\ UNCHANGED <<cache_enabled, cache, catpc, catcall, catLast, catPrev>>

\* one iteration of the thread's retry loop (max_retries has its default):
\* the provider answers and the result is written and returned, or it fails
RaceAttempt(t, outcome) ==
    LET call == thr[t]
        key == GenerateCacheKey(call.title, call.content)
    IN
    /\ call.pc = "miss"
    /\ IF outcome.kind = "ok"
       THEN /\ cache' = CacheStore(cache, cache_enabled, key, outcome.value)
            /\ thr' = [thr EXCEPT ![t] = [call EXCEPT !.pc = "done",
                                                      !.status = "return",
                                                      !.value = outcome.value]]
       ELSE /\ UNCHANGED cache
            /\ thr' = [thr EXCEPT ![t] =
                         IF IsTransient(outcome.exc) /\ call.attempt < DefaultMaxRetries
                         THEN [call EXCEPT !.attempt = @ + 1]
                         ELSE [call EXCEPT !.pc = "done", !.status = "raise",
                                           !.exc = "RuntimeError"]]
    /\ UNCHANGED <<cache_enabled, catpc, catcall, catLast, catPrev>>

RaceOutcomes ==
    { o \in ProviderOutcomes : o.kind = "ok" \/ o.exc \in { "RateLimitError", "KeyError" } }

ThreadEnters ==
    /\ \E t \in Threads, i \in CatInputs : RaceEnter(t, i.title, i.content)
    /\ UNCHANGED mgrvars

ThreadAttempts ==
    /\ \E t \in Threads, o \in RaceOutcomes : RaceAttempt(t, o)
    /\ UNCHANGED mgrvars

NextRace == ThreadEnters \/ ThreadAttempts

SpecRace == InitMgr /\ [][NextRace]_vars

\* C28 (as stated): when two categorize_content calls with the same
\* (title, content) interleave on one service, the value first stored for the
\* key is not overwritten by the other call, and both calls return the value
\* that ends up in the cache.
C28_Original ==
    /\ [][\A k \in CacheKeys : cache[k] # NoEntry => cache'[k] = cache[k]]_vars
    /\ [](\A t \in Threads, u \in Threads :
            (/\ thr[t].status = "return" /\ thr[u].status = "return"
             /\ thr[t].title = thr[u].title /\ thr[t].content = thr[u].content)
               => /\ thr[t].value = thr[u].value
                  /\ thr[t].value
                        = cache[GenerateCacheKey(thr[t].title, thr[t].content)])

\* a step changes the cache only by writing the provider's result of the call
\* that returns in this step, under that call's key
OnlySuccessWritten ==
    cache' # cache =>
        /\ catpc = "loop"
        /\ catLast'.status = "return"
        /\ ~catLast'.fromCache
        /\ catLast'.value \in CatResults
        /\ catLast'.trace[Len(catLast'.trace)].kind = "ok"
        /\ cache' = [cache EXCEPT
                       ![GenerateCacheKey(catLast'.title, catLast'.content)] =
                           catLast'.value]

\* a call that ends without reaching the provider (content not blank,
\* max_retries >= 1) was answered from the cache with a provider result
NoCachedFailure ==
    (/\ catpc = "idle" /\ catpc' = "idle"
     /\ catLast' # catLast
     /\ Strip(catLast'.content) # <<>>
     /\ catLast'.max_retries >= 1)
       => /\ catLast'.fromCache
          /\ catLast'.value \in CatResults
          /\ catLast'.value = cache[GenerateCacheKey(catLast'.title, catLast'.content)]

\* C29: a categorize_content call that ends in an error (retry limit reached,
\* non-transient failure, blank content) leaves the cache unchanged: only a
\* successful provider result is ever written, so a later call with the same
\* (title, content) invokes the provider again.
C29_ErrorsNotCached == [][OnlySuccessWritten /\ NoCachedFailure]_vars

\* a call failed at the retry limit, and a later call with the same arguments
\* invoked the provider and returned its result
C29_Witness ==
    /\ cache_enabled
    /\ catPrev.status = "raise"
    /\ catPrev.invocations = DefaultMaxRetries
    /\ SamePair(catPrev, catLast)
    /\ catLast.status = "return"
    /\ ~catLast.fromCache
    /\ catLast.invocations = 1
    /\ cache[GenerateCacheKey(catLast.title, catLast.content)] = catLast.value

(***************************************************************************)
(* ContentExtractor.extract_from_url                                       *)
(***************************************************************************)
\* the metadata dictionary: a key that is absent holds Missing
NoMetadata == [author |-> Missing, date |-> Missing]

\* _extract_metadata: author and date are taken from meta tags that have a
\* non-empty content attribute; with neither, the method raises
ExtractMetadata(page) ==
    LET metadata ==
          [author |-> IF page.author # Missing /\ page.author # "" THEN page.author
                      ELSE Missing,
           date |-> IF page.date # Missing /\ page.date # "" THEN page.date
                    ELSE Missing]
    IN
    IF metadata = NoMetadata
    THEN [kind |-> "raise", exc |-> "MetadataExtractionException",
          msg |-> <<"Error extracting metadata. No metadata found in the content.">>,
          metadata |-> NoMetadata]
    ELSE [kind |-> "ok", exc |-> None, msg |-> <<>>, metadata |-> metadata]

\* _extract_main_content: the first matching content element, else the page
ExtractMainContent(page) ==
    IF page.article # NoneText THEN CleanText(page.article) ELSE CleanText(page.text)

\* urlparse(url).netloc
Netloc(url) == <<"netloc", url>>

ExtractResult(kind, exc, error, title, content, url, metadata, type) ==
    [kind |-> kind, exc |-> exc, error |-> error, title |-> title,
     content |-> content, url |-> url, metadata |-> metadata, type |-> type]
ExtractError(error) ==
    ExtractResult("dict", None, error, NoneText, NoneText, None, NoMetadata, Missing)
ExtractRaise(exc, msg) ==
    ExtractResult("raise", exc, msg, NoneText, NoneText, None, NoMetadata, Missing)

\* extract_from_url; response is what requests.get and raise_for_status do
ExtractFromUrl(url, response) ==
    IF url = ""
    THEN ExtractRaise("URLFormatException", <<"Invalid URL format.">>)
    ELSE IF response.kind = "raise"
    THEN CASE response.exc = "UnicodeDecodeError" ->
                 ExtractRaise("InvalidContentException",
                              <<"Invalid content encoding.">>)
           [] response.exc = "Timeout" -> ExtractError(<<"Request timed out">>)
           [] response.exc = "ConnectionError" -> ExtractError(<<"Connection failed">>)
           [] response.exc = "HTTPError" -> ExtractError(<<"HTTP error: ">> \o response.msg)
           [] OTHER -> ExtractError(<<"Request failed: ">> \o response.msg)
    ELSE IF response.empty
    THEN ExtractResult("dict", None, <<>>, <<"No title Found">>, <<>>, url,
                       NoMetadata, "empty")
    ELSE LET page == response.page
             title == IF page.title # NoneText THEN Strip(page.title)
                      ELSE <<"No title Found">>
             content == ExtractMainContent(page)
             metadata == ExtractMetadata(page)
         IN
         IF metadata.kind = "raise"
         THEN ExtractError(metadata.msg)      \* except Exception as e
         ELSE ExtractResult("dict", None, <<>>, title, content, url,
                            metadata.metadata, Missing)

Pages ==
    [title : { NoneText, <<" ", "T">> },
     article : { NoneText, <<"x", " ", " ", "y">> },
     text : { <<" ", "x">> },
     author : { Missing, "", "John Doe" },
     date : { Missing, "", "2024-01-01" }]
NoPage ==
    [title |-> NoneText, article |-> NoneText, text |-> <<>>, author |-> Missing,
     date |-> Missing]
Responses ==
    { [kind |-> "ok", exc |-> None, msg |-> <<>>, empty |-> FALSE, page |-> p] :
         p \in Pages }
      \cup { [kind |-> "ok", exc |-> None, msg |-> <<>>, empty |-> TRUE,
              page |-> NoPage] }
      \cup { [kind |-> "raise", exc |-> e, msg |-> <<"404">>, empty |-> FALSE,
              page |-> NoPage] :
                e \in { "Timeout", "ConnectionError", "HTTPError",
                        "RequestException", "UnicodeDecodeError" } }
ExtractUrls == { "", "u1", "u2" }

\* extract_from_url is called on the extractor
ExtractorCall ==
    /\ CanQuery
    /\ \E url \in ExtractUrls, response \in Responses :
          qry' = [kind |-> "extract", status |-> "done", url |-> url,
                  response |-> response, result |-> ExtractFromUrl(url, response)]
    /\ UNCHANGED <<pc, op, attempt, loc, calls, res, db, bulk, retr>>
    /\ UNCHANGED catvars

\* _extract_metadata is called on a parsed page
MetadataCall ==
    /\ CanQuery
    /\ \E p \in Pages :
          qry' = [kind |-> "metadata", status |-> "done", page |-> p,
                  result |-> ExtractMetadata(p)]
    /\ UNCHANGED <<pc, op, attempt, loc, calls, res, db, bulk, retr>>
    /\ UNCHANGED catvars

NextExtract == ExtractorCall \/ MetadataCall

SpecExtract == InitMgr /\ [][NextExtract]_vars

(***************************************************************************)
(* Claims about the extractor                                              *)
(***************************************************************************)
\* the page has neither an author nor an article:published_time meta tag
NoMetaTags(page) == page.author = Missing /\ page.date = Missing

\* C30 (as stated): extract_from_url on a successfully fetched, non-empty page
\* without author and article:published_time meta tags returns the page's
\* title and content with empty metadata, not an error result;
\* _extract_metadata returns an empty mapping when no metadata tags are
\* present.
C30_Original ==
    /\ (/\ qry.kind = "extract"
        /\ qry.url # ""
        /\ qry.response.kind = "ok" /\ ~qry.response.empty
        /\ NoMetaTags(qry.response.page))
          => /\ qry.result.kind = "dict"
             /\ qry.result.error = <<>>
             /\ qry.result.content = ExtractMainContent(qry.response.page)
             /\ qry.result.metadata = NoMetadata
    /\ (qry.kind = "metadata" /\ NoMetaTags(qry.page))
          => /\ qry.result.kind = "ok"
             /\ qry.result.metadata = NoMetadata

\* what the extractor does implement: a page with a metadata tag yields its
\* title, content and that metadata
C30_WithMetadata ==
    (/\ qry.kind = "extract"
     /\ qry.url # ""
     /\ qry.response.kind = "ok" /\ ~qry.response.empty
     /\ qry.response.page.author = "John Doe")
       => /\ qry.result.kind = "dict"
          /\ qry.result.error = <<>>
          /\ qry.result.metadata.author = "John Doe"

====
